---------------------------- MODULE Spec2Model ----------------------------
(***************************************************************************)
(* The vector-knowledge proof engine (QuantumZKP) of axiomverse-mvp-py.    *)
(*                                                                         *)
(* The repository holds several implementations of the engine.  Each is    *)
(* modelled from its own file and told apart by the variable `variant`:    *)
(*   "opt"    src/modules/zkp/qzkp_optimized.py      (Falcon, JSON)        *)
(*   "zkp"    src/modules/zkp/quantum_zkp.py         (Dilithium, pickle)   *)
(*   "async"  src/src/modules/zkp/qzkp_optimized.py  (result cache, pool)  *)
(*   "worker" src/src/modules/zkp/qzkp_2.py          (joblib worker)       *)
(*                                                                         *)
(* Numbers.  Input vectors have components in Vals.  A normalised          *)
(* amplitude v[i]/|v| is kept exactly, as its sign and its squared         *)
(* magnitude in units of 1/Q; a 0/0 is the flag nan.  Phases are in units  *)
(* of pi.  Byte strings are sequences of atoms, concatenation is \o.  The  *)
(* hash and the signature scheme are ideal: a digest is the term of the    *)
(* bytes absorbed, a signature the term of (key, message).                 *)
(***************************************************************************)
EXTENDS Integers, Naturals, Sequences, FiniteSets, TLC

\* ------------------------------------------------------------ bounds
MaxLen == 2            \* longest input vector
Dimensions == 2        \* the engine's `dimensions` argument
SecurityLevel == 8     \* the engine's `security_level` argument
MaxCalls == 2          \* calls made on one engine in one run
MaxBatch == 2          \* items in one batch

\* --------------------------------------------------- program constants
InvTolerance == 100000      \* 1 / PROBABILITY_TOLERANCE (1e-5)
MAX_CACHE_SIZE == 10000

Vals == {-1, 0, 1}
Identifiers == {"id1", "id2"}
Vectors == UNION {[1..n -> Vals] : n \in 1..MaxLen}

RECURSIVE Gcd(_, _)
Gcd(a, b) == IF b = 0 THEN a ELSE Gcd(b, a % b)

RECURSIVE LcmUpTo(_)
LcmUpTo(n) == IF n <= 1 THEN 1 ELSE (LcmUpTo(n - 1) * n) \div Gcd(LcmUpTo(n - 1), n)

\* The unit of squared magnitude is 1/Q: every |v[i]|^2 / |v|^2 with
\* |v|^2 <= MaxLen is a whole number of units, and so is the tolerance 1e-5.
Q == InvTolerance * LcmUpTo(MaxLen)

RECURSIVE SumSeq(_)
SumSeq(s) == IF s = <<>> THEN 0 ELSE Head(s) + SumSeq(Tail(s))

Sign(x) == IF x > 0 THEN 1 ELSE IF x < 0 THEN -1 ELSE 0
Abs(x) == IF x < 0 THEN -x ELSE x

\* np.linalg.norm(vector) ** 2
NormSq(v) == SumSeq([i \in 1..Len(v) |-> v[i] * v[i]])

\* vector / np.linalg.norm(vector): numpy divides 0 by 0 to nan, it does not raise
Normalize(v) ==
    LET n2 == NormSq(v)
    IN  [i \in 1..Len(v) |->
            IF n2 = 0
            THEN [nan |-> TRUE, sgn |-> 0, sq |-> 0]
            ELSE [nan |-> FALSE, sgn |-> Sign(v[i]), sq |-> v[i] * v[i] * (Q \div n2)]]

ZeroAmp == [nan |-> FALSE, sgn |-> 0, sq |-> 0]

RECURSIVE SquareLength(_, _)
SquareLength(n, k) == IF k * k >= n THEN k * k ELSE SquareLength(n, k + 1)

\* pads with zeros to the next perfect-square length
adjust_to_square_length(coords) ==
    LET target == SquareLength(Len(coords), 0)
    IN  IF Len(coords) < target
        THEN [i \in 1..target |-> IF i <= Len(coords) THEN coords[i] ELSE ZeroAmp]
        ELSE coords

AnyNan(coords) == \E i \in 1..Len(coords) : coords[i].nan

\* sum of |c_i|^2 in units of 1/Q (meaningless when a component is nan)
SumSq(coords) == SumSeq([i \in 1..Len(coords) |-> coords[i].sq])

\* np.mean(np.abs(coordinates)): the float is kept as the exact surd it rounds,
\* (sum of sqrt(sq_i)) / len, named by len and by how often each sq occurs.
Coherence(coords) ==
    [nan |-> AnyNan(coords) \/ Len(coords) = 0,
     len |-> Len(coords),
     mags |-> [x \in {coords[i].sq : i \in 1..Len(coords)} |->
                  Cardinality({i \in 1..Len(coords) : coords[i].sq = x})]]

\* QuantumStateVector's field default coherence = 1.0
DefaultCoherence == [nan |-> FALSE, len |-> 1, mags |-> [x \in {Q} |-> 1]]

\* -------------------------------------------------------------- bytes
CoordAtom(a) == [t |-> "f64", s |-> "", nan |-> a.nan, a |-> a.sgn, b |-> a.sq,
                 m |-> [x \in {} |-> 0]]
CoherenceAtom(c) == [t |-> "str", s |-> "coherence", nan |-> c.nan, a |-> c.len, b |-> 0,
                     m |-> c.mags]
IdAtom(id) == [t |-> "utf8", s |-> id, nan |-> FALSE, a |-> 0, b |-> 0, m |-> [x \in {} |-> 0]]
PhaseAtom(ph) == [t |-> "f64", s |-> "phase", nan |-> FALSE, a |-> ph, b |-> 0,
                  m |-> [x \in {} |-> 0]]

\* ndarray.tobytes()
tobytes(coords) == [i \in 1..Len(coords) |-> CoordAtom(coords[i])]

\* hashlib.sha3_256: the digest of the bytes absorbed so far
Digest(bytes) == [alg |-> "sha3_256", data |-> bytes]


\* ---------------------------------------------------------- signatures
Variants == {"opt", "zkp", "async", "worker"}
EngineKey == "k1"
NoKey == "none"
WorkerKeys == {"w1", "w2", "w3", "w4"}

NoBody == [f \in {} |-> 0]
NoMessage == [body |-> NoBody, commitment |-> Digest(<<>>)]

\* Signature.sign(message) followed by .hex()
SignHex(key, message) == [kind |-> "hex", key |-> key, msg |-> message]
\* values of the signature field that are not the hex of a signature
NoneSignature == [kind |-> "None", key |-> NoKey, msg |-> NoMessage]
NonHexSignature == [kind |-> "nonhex", key |-> NoKey, msg |-> NoMessage]
\* the hex of bytes that no key ever produced
GarbageSignature == [kind |-> "hex", key |-> NoKey, msg |-> NoMessage]

\* Signature.verify(message, signature, public_key)
SigVerify(message, sig, public_key) ==
    public_key # NoKey /\ sig.key = public_key /\ sig.msg = message

\* --------------------------------------------------------------- proofs
RequiredFields == {"quantum_dimensions", "basis_coefficients", "measurements",
                   "state_metadata", "signature", "identifier"}

\* A proof is a Python dict: a function from its keys.  The value None is the
\* function on the one key "__none__".
NoneProof == [f \in {"__none__"} |-> 0]
IsDict(proof) == "__none__" \notin DOMAIN proof

Coeff(form, a) == [form |-> form, nan |-> a.nan, sgn |-> a.sgn, sq |-> a.sq]

\* np.abs(amplitude) ** 2 and np.angle(amplitude) at a 0-based index
Measure(coords, idx) ==
    [basis_index |-> idx,
     nan |-> coords[idx + 1].nan,
     probability |-> coords[idx + 1].sq,
     phase |-> IF coords[idx + 1].sgn < 0 THEN 1 ELSE 0]

\* security_level // 8 measurements at the drawn indices
generate_measurements(coords, security_level, idxs) ==
    [k \in 1..(security_level \div 8) |-> Measure(coords, idxs[k])]

\* np.random.randint(0, n, size=security_level // 8)
IndexDraws(n, security_level) == [1..(security_level \div 8) -> 0..(n - 1)]

\* -sum(p * log2(p + 1e-10)): kept as the term of the distribution it is computed from
calculate_entropy(coords) ==
    [nan |-> AnyNan(coords),
     mags |-> [x \in {coords[i].sq : i \in 1..Len(coords)} |->
                  Cardinality({i \in 1..Len(coords) : coords[i].sq = x})]]

WithoutSignature(proof) == [f \in (DOMAIN proof) \ {"signature"} |-> proof[f]]

\* json.dumps(..., sort_keys=True, default=_complex_encoder): a complex number is
\* written as {"real", "imag"}, the same text as a dict of that shape; a float is
\* written as a number.
JsonCoeff(c) == [c EXCEPT !.form = IF c.form = "complex" THEN "dict" ELSE c.form]
JsonBody(body) ==
    [f \in DOMAIN body |->
        IF f = "basis_coefficients"
        THEN [i \in 1..Len(body[f]) |-> JsonCoeff(body[f][i])]
        ELSE body[f]]

\* ------------------------------------------------- proving, per variant
\* What a call returns or raises.
Returned(commitment, proof) ==
    [raised |-> FALSE, exc |-> "", commitment |-> commitment, proof |-> proof]
Raised(exc) ==
    [raised |-> TRUE, exc |-> exc, commitment |-> Digest(<<>>), proof |-> NoneProof]

\* QuantumZKP._generate_commitment, src/modules/zkp/qzkp_optimized.py
generate_commitment_opt(coords, coherence, identifier) ==
    Digest(tobytes(coords) \o <<CoherenceAtom(coherence)>> \o <<IdAtom(identifier)>>)

\* QuantumZKP._prepare_message_for_signing, src/modules/zkp/qzkp_optimized.py
\* a faulty variant: the signature field is serialised with the rest
prepare_message_keeping_signature(proof, commitment) ==
    [body |-> JsonBody(proof), commitment |-> commitment]

prepare_message_for_signing_opt(proof, commitment) ==
    [body |-> JsonBody(WithoutSignature(proof)), commitment |-> commitment]

\* The proof dict of prove_vector_knowledge before it is signed.
ProofBody_opt(coords, identifier, idxs) ==
    [f \in RequiredFields \ {"signature"} |->
        CASE f = "quantum_dimensions" -> Dimensions
          [] f = "basis_coefficients" -> [i \in 1..Len(coords) |-> Coeff("complex", coords[i])]
          [] f = "measurements" -> generate_measurements(coords, SecurityLevel, idxs)
          [] f = "state_metadata" -> [coherence |-> Coherence(coords),
                                      entanglement |-> calculate_entropy(coords),
                                      correlation |-> calculate_entropy(coords)]
          [] OTHER -> identifier]

WithSignature(body, sig) ==
    [f \in (DOMAIN body) \cup {"signature"} |-> IF f = "signature" THEN sig ELSE body[f]]

\* QuantumZKP.prove_vector_knowledge, src/modules/zkp/qzkp_optimized.py
\* an empty vector stays empty through the division and the padding, and
\* np.random.randint(0, 0, ...) in _generate_measurements raises ValueError
prove_vector_knowledge_opt(key, vector, identifier, idxs) ==
    IF Len(vector) = 0 THEN Raised("ValueError") ELSE
    LET coords == adjust_to_square_length(Normalize(vector))
        commitment == generate_commitment_opt(coords, Coherence(coords), identifier)
        body == ProofBody_opt(coords, identifier, idxs)
        message == prepare_message_for_signing_opt(body, commitment)
    IN  Returned(commitment, WithSignature(body, SignHex(key, message)))

\* QuantumZKP._generate_commitment, src/modules/zkp/quantum_zkp.py: the random
\* phase of the state is hashed with the coordinates.
generate_commitment_zkp(coords, phase, coherence, identifier) ==
    Digest(tobytes(coords) \o [i \in 1..Len(phase) |-> PhaseAtom(phase[i])]
           \o <<CoherenceAtom(coherence)>> \o <<IdAtom(identifier)>>)

\* QuantumZKP._prepare_message_for_signing, src/modules/zkp/quantum_zkp.py:
\* sets proof["signature"] = None on the caller's dict, then pickles it.
MutatedBySigning_zkp(proof) == WithSignature(WithoutSignature(proof), NoneSignature)
prepare_message_for_signing_zkp(proof, commitment) ==
    [body |-> MutatedBySigning_zkp(proof), commitment |-> commitment]

\* QuantumZKP._calculate_entanglement, src/modules/zkp/quantum_zkp.py
calculate_entanglement_zkp(coords) ==
    IF SquareLength(Len(coords), 0) # Len(coords)
    THEN [nan |-> FALSE, mags |-> [x \in {} |-> 0]]
    ELSE calculate_entropy(coords)

ProofBody_zkp(coords, identifier, idxs) ==
    [f \in RequiredFields \ {"signature"} |->
        CASE f = "quantum_dimensions" -> Dimensions
          [] f = "basis_coefficients" -> [i \in 1..Len(coords) |-> Coeff("complex", coords[i])]
          [] f = "measurements" -> generate_measurements(coords, SecurityLevel, idxs)
          [] f = "state_metadata" -> [coherence |-> DefaultCoherence,
                                      entanglement |-> calculate_entanglement_zkp(coords)]
          [] OTHER -> identifier]

\* QuantumZKP.prove_vector_knowledge, src/modules/zkp/quantum_zkp.py.  np.vdot
\* of a basis state (length dimensions) with a vector of another length raises.
prove_vector_knowledge_zkp(key, vector, phase, identifier, idxs) ==
    LET coords == Normalize(vector)
        commitment == generate_commitment_zkp(coords, phase, DefaultCoherence, identifier)
        body == ProofBody_zkp(coords, identifier, idxs)
        message == prepare_message_for_signing_zkp(body, commitment)
    IN  IF Len(vector) # Dimensions
        THEN Raised("ValueError")
        ELSE Returned(commitment, WithSignature(body, SignHex(key, message)))

\* QuantumZKP.prove_vector_knowledge, src/src/modules/zkp/qzkp_optimized.py:
\* state.calculate_coherence() is an lru_cache over a dataclass instance, which
\* is unhashable, so the call raises before anything is committed or signed.
prove_vector_knowledge_async(key, vector, identifier, idxs) == Raised("TypeError")

\* generate_commitment and prepare_message_for_signing, src/src/modules/zkp/qzkp_2.py
generate_commitment_worker(coords, coherence, identifier) ==
    Digest(tobytes(coords) \o <<CoherenceAtom(coherence)>> \o <<IdAtom(identifier)>>)
prepare_message_for_signing_worker(proof, commitment) ==
    [body |-> JsonBody(WithoutSignature(proof)), commitment |-> commitment]

\* prove_vector_knowledge_worker, src/src/modules/zkp/qzkp_2.py: each call makes
\* a Signature object and a keypair of its own and signs with that.
ProofBody_worker(coords, identifier, dimensions, idxs) ==
    [f \in RequiredFields \ {"signature"} |->
        CASE f = "quantum_dimensions" -> dimensions
          [] f = "basis_coefficients" -> [i \in 1..Len(coords) |-> Coeff("complex", coords[i])]
          [] f = "measurements" -> generate_measurements(coords, SecurityLevel, idxs)
          [] f = "state_metadata" -> [coherence |-> Coherence(coords),
                                      entanglement |-> calculate_entropy(coords),
                                      identifier |-> identifier]
          [] OTHER -> identifier]

prove_vector_knowledge_worker(fresh_key, vector, identifier, dimensions, idxs) ==
    LET coords == adjust_to_square_length(Normalize(vector))
        commitment == generate_commitment_worker(coords, Coherence(coords), identifier)
        body == ProofBody_worker(coords, identifier, dimensions, idxs)
        message == prepare_message_for_signing_worker(body, commitment)
    IN  Returned(commitment, WithSignature(body, SignHex(fresh_key, message)))

\* --------------------------------------------------------- ResultCache
\* class ResultCache, src/src/modules/zkp/qzkp_optimized.py.  Each operator is
\* one critical section under self.lock; `now` is time.time().
EmptyMap == [k \in {} |-> 0]
Remove(f, k) == [x \in (DOMAIN f) \ {k} |-> f[x]]

ResultCache_init(maxsize) ==
    [cache |-> EmptyMap, maxsize |-> maxsize, access_times |-> EmptyMap,
     access_queue |-> <<>>]

ResultCache_get(rc, key, now) ==
    IF key \in DOMAIN rc.cache
    THEN [hit |-> TRUE, value |-> rc.cache[key],
          rc |-> [rc EXCEPT !.access_times = (key :> now) @@ @,
                            !.access_queue = Append(@, key)]]
    ELSE [hit |-> FALSE, value |-> FALSE, rc |-> rc]

RECURSIVE ResultCache_evict_oldest(_)
ResultCache_evict_oldest(rc) ==
    IF rc.access_queue # <<>> /\ Cardinality(DOMAIN rc.cache) >= rc.maxsize
    THEN LET oldest_key == Head(rc.access_queue)
             popped == [rc EXCEPT !.access_queue = Tail(@)]
         IN  IF oldest_key \in DOMAIN rc.cache
             THEN ResultCache_evict_oldest(
                      [popped EXCEPT !.cache = Remove(@, oldest_key),
                                     !.access_times = Remove(@, oldest_key)])
             ELSE ResultCache_evict_oldest(popped)
    ELSE rc

\* a put that stores without making room first
ResultCache_put_without_eviction(rc, key, value, now) ==
    [rc EXCEPT !.cache = (key :> value) @@ @,
               !.access_times = (key :> now) @@ @,
               !.access_queue = Append(@, key)]

ResultCache_put(rc, key, value, now) ==
    LET room == IF Cardinality(DOMAIN rc.cache) >= rc.maxsize
                THEN ResultCache_evict_oldest(rc) ELSE rc
    IN  [room EXCEPT !.cache = (key :> value) @@ @,
                     !.access_times = (key :> now) @@ @,
                     !.access_queue = Append(@, key)]

\* ----------------------------------------------- verifying, per variant
\* What verify_proof did: its result, the exception it caught ("" for none), the
\* checks it evaluated in order (numbered as in the specification: 1 fields,
\* 2 dimensions, 3 identifier, 4 signature, 5 normalisation, 6 measurements),
\* the caller's proof dict and the engine's result cache after the call, and
\* whether the result came from the cache.
Outcome(result, exc, trace, proof, rc, from_cache) ==
    [raised |-> FALSE, result |-> result, exc |-> exc, trace |-> trace, proof |-> proof,
     rc |-> rc, from_cache |-> from_cache]

\* `except Exception as e: logger.error(...); return False`, one per file
\* a faulty variant: the handler lets the exception out of verify_proof
reraise_Exception(exc, trace, proof, rc) ==
    [Outcome(FALSE, exc, trace, proof, rc, FALSE) EXCEPT !.raised = TRUE]

except_Exception_opt(exc, trace, proof, rc) == Outcome(FALSE, exc, trace, proof, rc, FALSE)
except_Exception_zkp(exc, trace, proof, rc) == Outcome(FALSE, exc, trace, proof, rc, FALSE)
except_Exception_async(exc, trace, proof, rc) == Outcome(FALSE, exc, trace, proof, rc, FALSE)

HasForm(coeffs, forms) == \E i \in 1..Len(coeffs) : coeffs[i].form \in forms

\* np.isclose(total, 1.0, atol=1e-5): |total - 1| <= atol + rtol * 1 with numpy's
\* default rtol = 1e-5; a nan is close to nothing.
IsClose(coeffs) ==
    /\ ~AnyNan(coeffs)
    /\ Abs(SumSq(coeffs) - Q) <= 2 * (Q \div InvTolerance)

\* QuantumZKP.verify_proof, src/modules/zkp/qzkp_optimized.py
verify_proof_opt(public_key, dimensions, rc, commitment, proof, identifier) ==
    IF ~IsDict(proof) THEN except_Exception_opt("TypeError", <<1>>, proof, rc)
    ELSE IF ~(RequiredFields \subseteq DOMAIN proof)
    THEN Outcome(FALSE, "", <<1>>, proof, rc, FALSE)
    ELSE IF proof["quantum_dimensions"] # dimensions
    THEN Outcome(FALSE, "", <<1, 2>>, proof, rc, FALSE)
    ELSE IF proof["identifier"] # identifier
    THEN Outcome(FALSE, "", <<1, 2, 3>>, proof, rc, FALSE)
    ELSE IF proof["signature"].kind = "None"
    THEN except_Exception_opt("TypeError", <<1, 2, 3, 4>>, proof, rc)
    ELSE IF proof["signature"].kind = "nonhex"
    THEN except_Exception_opt("ValueError", <<1, 2, 3, 4>>, proof, rc)
    ELSE IF ~SigVerify(prepare_message_for_signing_opt(proof, commitment),
                       proof["signature"], public_key)
    THEN Outcome(FALSE, "", <<1, 2, 3, 4>>, proof, rc, FALSE)
    ELSE IF HasForm(proof["basis_coefficients"], {"str"})
    THEN except_Exception_opt("ValueError", <<1, 2, 3, 4, 5>>, proof, rc)
    ELSE Outcome(IsClose(proof["basis_coefficients"]), "", <<1, 2, 3, 4, 5>>, proof, rc, FALSE)

\* QuantumZKP._verify_basis_coefficients, src/modules/zkp/quantum_zkp.py
verify_basis_coefficients_zkp(coeffs, dimensions) ==
    Len(coeffs) = dimensions /\ IsClose(coeffs)

\* QuantumZKP._verify_measurements, src/modules/zkp/quantum_zkp.py: after the
\* length test it indexes np.array(list of dicts) by a field name, which raises
\* IndexError; its own except turns that into False.
verify_measurements_zkp(measurements, security_level) ==
    IF Len(measurements) # security_level \div 8
    THEN [result |-> FALSE, exc |-> ""]
    ELSE [result |-> FALSE, exc |-> "IndexError"]

\* QuantumZKP.verify_proof, src/modules/zkp/quantum_zkp.py
verify_proof_zkp(public_key, dimensions, rc, commitment, proof, identifier) ==
    IF ~IsDict(proof) THEN except_Exception_zkp("TypeError", <<1>>, proof, rc)
    ELSE IF ~(RequiredFields \subseteq DOMAIN proof)
    THEN Outcome(FALSE, "", <<1>>, proof, rc, FALSE)
    ELSE IF proof["quantum_dimensions"] # dimensions
    THEN Outcome(FALSE, "", <<1, 2>>, proof, rc, FALSE)
    ELSE IF proof["identifier"] # identifier
    THEN Outcome(FALSE, "", <<1, 2, 3>>, proof, rc, FALSE)
    ELSE IF proof["signature"].kind = "None"
    THEN except_Exception_zkp("TypeError", <<1, 2, 3, 4>>, proof, rc)
    ELSE IF proof["signature"].kind = "nonhex"
    THEN except_Exception_zkp("ValueError", <<1, 2, 3, 4>>, proof, rc)
    ELSE LET after == MutatedBySigning_zkp(proof)
             message == prepare_message_for_signing_zkp(proof, commitment)
             measured == verify_measurements_zkp(proof["measurements"], SecurityLevel)
         IN  IF ~SigVerify(message, proof["signature"], public_key)
             THEN Outcome(FALSE, "", <<1, 2, 3, 4>>, after, rc, FALSE)
             ELSE IF HasForm(proof["basis_coefficients"], {"dict"})
             THEN except_Exception_zkp("TypeError", <<1, 2, 3, 4, 5>>, after, rc)
             ELSE IF HasForm(proof["basis_coefficients"], {"str"})
             THEN except_Exception_zkp("ValueError", <<1, 2, 3, 4, 5>>, after, rc)
             ELSE IF ~verify_basis_coefficients_zkp(proof["basis_coefficients"], dimensions)
             THEN Outcome(FALSE, "", <<1, 2, 3, 4, 5>>, after, rc, FALSE)
             ELSE IF ~measured.result
             THEN Outcome(FALSE, measured.exc, <<1, 2, 3, 4, 5, 6>>, after, rc, FALSE)
             \* self._verify_quantum_properties is not defined anywhere
             ELSE except_Exception_zkp("AttributeError", <<1, 2, 3, 4, 5, 6>>, after, rc)

\* QuantumZKP._verify_basis_coefficients, src/src/modules/zkp/qzkp_optimized.py
verify_basis_coefficients_async(coeffs) ==
    /\ ~AnyNan(coeffs)
    /\ Abs(SumSq(coeffs) - Q) < Q \div InvTolerance

\* QuantumZKP._prepare_message_for_signing, src/src/modules/zkp/qzkp_optimized.py
prepare_message_for_signing_async(proof, commitment) ==
    [body |-> JsonBody(WithoutSignature(proof)), commitment |-> commitment]

\* the cache key of verify_proof: f"{commitment.hex()}-{identifier}"
CacheKey(commitment, proof, identifier) ==
    [commitment |-> commitment, identifier |-> identifier]

\* a verify_proof that caches the result of the coefficient check either way
verify_proof_async_caching_failures(public_key, now, rc, commitment, proof, identifier) ==
    IF ~IsDict(proof) THEN except_Exception_async("TypeError", <<1>>, proof, rc)
    ELSE IF ~(RequiredFields \subseteq DOMAIN proof)
    THEN Outcome(FALSE, "", <<1>>, proof, rc, FALSE)
    ELSE LET cache_key == CacheKey(commitment, proof, identifier)
             got == ResultCache_get(rc, cache_key, now)
         IN  IF got.hit
             THEN Outcome(got.value, "", <<1>>, proof, got.rc, TRUE)
             ELSE IF proof["signature"].kind = "None"
             THEN except_Exception_async("TypeError", <<1, 4>>, proof, rc)
             ELSE IF proof["signature"].kind = "nonhex"
             THEN except_Exception_async("ValueError", <<1, 4>>, proof, rc)
             ELSE IF ~SigVerify(prepare_message_for_signing_async(proof, commitment),
                                proof["signature"], public_key)
             THEN Outcome(FALSE, "", <<1, 4>>, proof, rc, FALSE)
             ELSE IF HasForm(proof["basis_coefficients"], {"complex", "str"})
             THEN except_Exception_async("TypeError", <<1, 4, 5>>, proof, rc)
             ELSE IF ~verify_basis_coefficients_async(proof["basis_coefficients"])
             THEN Outcome(FALSE, "", <<1, 4, 5>>, proof,
                          ResultCache_put(rc, cache_key, FALSE, now), FALSE)
             ELSE Outcome(TRUE, "", <<1, 4, 5>>, proof,
                          ResultCache_put(rc, cache_key, TRUE, now), FALSE)

\* QuantumZKP.verify_proof, src/src/modules/zkp/qzkp_optimized.py
verify_proof_async(public_key, now, rc, commitment, proof, identifier) ==
    IF ~IsDict(proof) THEN except_Exception_async("TypeError", <<1>>, proof, rc)
    ELSE IF ~(RequiredFields \subseteq DOMAIN proof)
    THEN Outcome(FALSE, "", <<1>>, proof, rc, FALSE)
    ELSE LET cache_key == CacheKey(commitment, proof, identifier)
             got == ResultCache_get(rc, cache_key, now)
         IN  IF got.hit
             THEN Outcome(got.value, "", <<1>>, proof, got.rc, TRUE)
             ELSE IF proof["signature"].kind = "None"
             THEN except_Exception_async("TypeError", <<1, 4>>, proof, rc)
             ELSE IF proof["signature"].kind = "nonhex"
             THEN except_Exception_async("ValueError", <<1, 4>>, proof, rc)
             ELSE IF ~SigVerify(prepare_message_for_signing_async(proof, commitment),
                                proof["signature"], public_key)
             THEN Outcome(FALSE, "", <<1, 4>>, proof, rc, FALSE)
             ELSE IF HasForm(proof["basis_coefficients"], {"complex", "str"})
             THEN except_Exception_async("TypeError", <<1, 4, 5>>, proof, rc)
             ELSE IF ~verify_basis_coefficients_async(proof["basis_coefficients"])
             THEN Outcome(FALSE, "", <<1, 4, 5>>, proof, rc, FALSE)
             ELSE Outcome(TRUE, "", <<1, 4, 5>>, proof,
                          ResultCache_put(rc, cache_key, TRUE, now), FALSE)

\* ------------------------------------------------------------- the state
VARIABLES
    variant,      \* which implementation the engine is an instance of
    input_vector, \* the vector the caller proves knowledge of
    input_identifier, \* the identifier the caller binds its proofs to
    public_key,   \* self.public_key, set by __init__ (NoKey: the class keeps none)
    rcache,       \* self._result_cache
    held,         \* the (commitment, proof) the caller holds; the proof is a dict
                  \* object that the caller may edit and the engine may write to
    ncalls,       \* calls made so far; also the reading of time.time()
    last,         \* the last call: its arguments and what it did
    proved,       \* the last (vector, identifier, commitment, proof) a prove returned
    accepted,     \* the last (commitment, proof, identifier) a verify accepted
    used_keys,    \* keypairs generated so far by workers
    hashers,      \* self._thread_local.hasher of each thread: what it has absorbed
    commit_call,  \* the last direct _generate_commitment call and what it did
    pool_shutdown, \* whether the module's THREAD_POOL has been shut down
    batch,        \* the batch call in progress, or the last one
    cache_log,    \* the calls made on a ResultCache used on its own: when each
                  \* entry present was inserted, and what the last call did
    vss,          \* the VSS object, the shares it issued and the last reconstruction
    sample,       \* the last direct _generate_measurements call and what it returned
    interp,       \* a polynomial, share points of it and what interpolation returned
    emitter,      \* an EventEmitter and the events its publisher received
    protocol      \* a TransactionProtocol and the calls in progress on it

more_vars == <<interp, emitter, protocol>>
aux_vars == <<cache_log, vss, sample, more_vars>>
zkp_side_vars == <<hashers, commit_call, pool_shutdown, batch>>
side_vars == <<zkp_side_vars, aux_vars>>
engine_vars == <<variant, input_vector, input_identifier, public_key, rcache, held,
                 ncalls, last, proved, accepted, used_keys>>
vars == <<engine_vars, side_vars>>

NoVector == <<>>
NoCommitment == Digest(<<>>)
NoOutcome == Outcome(FALSE, "", <<>>, NoneProof, ResultCache_init(0), FALSE)

NoHeld == [origin |-> "none", commitment |-> NoCommitment, proof |-> NoneProof,
           edited |-> FALSE]
NoProved == [valid |-> FALSE, vector |-> NoVector, identifier |-> "",
             commitment |-> NoCommitment, proof |-> NoneProof]
NoAccepted == [valid |-> FALSE, commitment |-> NoCommitment, proof |-> NoneProof,
               identifier |-> ""]
NoCall == [op |-> "none", vector |-> NoVector, identifier |-> "",
           commitment |-> NoCommitment, proof |-> NoneProof, raised |-> FALSE,
           exc |-> "", out |-> NoOutcome, prior_proved |-> NoProved,
           prior_accepted |-> NoAccepted, prior_rc |-> ResultCache_init(0)]

\* no call made yet on the cache
NoCacheLog == [op |-> "none", key |-> "", nops |-> 0, inserted |-> EmptyMap,
               stored |-> EmptyMap, prior_inserted |-> EmptyMap,
               prior_stored |-> EmptyMap, was_full |-> FALSE, evicted |-> {}]
\* no _generate_measurements call made yet
NoInterp == [phase |-> "none"]
NoEmitter == [phase |-> "none"]
NoProtocol == [phase |-> "none"]
NoSample == [engine |-> "none", coords |-> <<>>, security_level |-> 0,
             measurements |-> <<>>]
\* no VSS object constructed
NoVss == [phase |-> "none"]

\* threads that call into one engine
Threads == {"t1", "t2"}
\* a thread on which _get_thread_local_hasher has not run yet
NoHasher == [created |-> FALSE, absorbed |-> <<>>]
NoCommitCall == [thread |-> "", vector |-> NoVector, identifier |-> "",
                 before |-> NoHasher, digest |-> NoCommitment, returned |-> FALSE,
                 exc |-> "", nth |-> 0]
NoResult == [raised |-> FALSE, exc |-> "", result |-> FALSE,
             commitment |-> NoCommitment, proof |-> NoneProof]
NoBatch == [op |-> "none", phase |-> "idle", count |-> 0, items |-> <<>>, done |-> {},
            by_idx |-> <<>>, order |-> <<>>, raised |-> FALSE, exc |-> "",
            results |-> <<>>]

\* QuantumZKP.__init__ of each file: one keypair, except in qzkp_2.py, whose
\* class holds no Signature object; the async engine builds a ResultCache().
\* quantum_zkp.py calls dil.keygen() on a name it never imports: dil is taken
\* as bound to the Dilithium primitive (unbound, the constructor raises
\* NameError and there is no engine to speak of).
Init ==
    /\ variant \in Variants
    /\ input_vector \in Vectors
    /\ input_identifier \in Identifiers
    /\ public_key = IF variant = "worker" THEN NoKey ELSE EngineKey
    /\ rcache = ResultCache_init(MAX_CACHE_SIZE)
    /\ held = NoHeld
    /\ ncalls = 0
    /\ last = NoCall
    /\ proved = NoProved
    /\ accepted = NoAccepted
    /\ used_keys = {}
    /\ hashers = [t \in Threads |-> NoHasher]
    /\ commit_call = NoCommitCall
    /\ pool_shutdown = FALSE
    /\ batch = NoBatch
    /\ cache_log = NoCacheLog
    /\ vss = NoVss
    /\ sample = NoSample
    /\ interp = NoInterp
    /\ emitter = NoEmitter
    /\ protocol = NoProtocol

\* The bookkeeping common to every prove call.
AfterProve(vector, identifier, r) ==
    /\ ncalls' = ncalls + 1
    /\ last' = [NoCall EXCEPT !.op = "prove", !.vector = vector, !.identifier = identifier,
                              !.commitment = r.commitment, !.proof = r.proof,
                              !.raised = r.raised, !.exc = r.exc,
                              !.prior_proved = proved, !.prior_accepted = accepted,
                              !.prior_rc = rcache]
    /\ proved' = IF r.raised THEN proved
                 ELSE [valid |-> TRUE, vector |-> vector, identifier |-> identifier,
                       commitment |-> r.commitment, proof |-> r.proof]
    /\ held' = IF r.raised THEN held
               ELSE [origin |-> "proved", commitment |-> r.commitment, proof |-> r.proof,
                     edited |-> FALSE]
    /\ UNCHANGED <<variant, input_vector, input_identifier, public_key, rcache, accepted>>
    /\ UNCHANGED side_vars

Prove_opt ==
    /\ variant = "opt" /\ ncalls < MaxCalls
    /\ \E idxs \in IndexDraws(SquareLength(Len(input_vector), 0), SecurityLevel) :
          AfterProve(input_vector, input_identifier,
                     prove_vector_knowledge_opt(public_key, input_vector,
                                                input_identifier, idxs))
    /\ UNCHANGED used_keys

\* np.random.uniform(0, 2 * np.pi, len): two values stand for the draws
PhaseChoices == {0, 1}

Prove_zkp ==
    /\ variant = "zkp" /\ ncalls < MaxCalls
    /\ \E phase \in [1..Len(input_vector) -> PhaseChoices],
          idxs \in IndexDraws(Dimensions, SecurityLevel) :
          AfterProve(input_vector, input_identifier,
                     prove_vector_knowledge_zkp(public_key, input_vector, phase,
                                                input_identifier, idxs))
    /\ UNCHANGED used_keys

Prove_async ==
    /\ variant = "async" /\ ncalls < MaxCalls
    /\ \E idxs \in IndexDraws(Len(input_vector), SecurityLevel) :
          AfterProve(input_vector, input_identifier,
                     prove_vector_knowledge_async(public_key, input_vector,
                                                  input_identifier, idxs))
    /\ UNCHANGED used_keys

\* Signature("Falcon-512").generate_keypair(): a key no earlier call made
FreshKey(used) == CHOOSE k \in WorkerKeys \ used : TRUE

Prove_worker ==
    /\ variant = "worker" /\ ncalls < MaxCalls
    /\ WorkerKeys \ used_keys # {}
    /\ \E idxs \in IndexDraws(SquareLength(Len(input_vector), 0), SecurityLevel) :
          LET fresh_key == FreshKey(used_keys)
          IN  /\ AfterProve(input_vector, input_identifier,
                            prove_vector_knowledge_worker(fresh_key, input_vector,
                                                          input_identifier, Dimensions, idxs))
              /\ used_keys' = used_keys \cup {fresh_key}

\* ------------------------------------------------ the caller's inputs
\* verify_proof takes any commitment, dict and identifier.  The caller starts
\* from a proof an engine returned, or (async engine, whose prove raises) from a
\* dict laid out as prove_vector_knowledge lays it out and signed under the
\* engine's key; it may then edit the dict once, and may present the edited
\* dict under a signature that verifies for it.  None of this is done once
\* the run's calls are used up.

\* the three hasher.update calls and hasher.digest() of _generate_commitment,
\* src/src/modules/zkp/qzkp_optimized.py, on a hasher that has absorbed `absorbed`
hasher_digest_async(absorbed, coords, coherence, identifier) ==
    Digest(absorbed \o tobytes(coords) \o <<CoherenceAtom(coherence)>>
           \o <<IdAtom(identifier)>>)

\* the proof dict of prove_vector_knowledge, src/src/modules/zkp/qzkp_optimized.py
ProofBody_async(coords, identifier, idxs, timestamp) ==
    [f \in RequiredFields \ {"signature"} |->
        CASE f = "quantum_dimensions" -> Dimensions
          [] f = "basis_coefficients" -> [i \in 1..Len(coords) |-> Coeff("float", coords[i])]
          [] f = "measurements" -> generate_measurements(coords, SecurityLevel, idxs)
          [] f = "state_metadata" -> [coherence |-> DefaultCoherence,
                                      entanglement |-> calculate_entropy(coords),
                                      timestamp |-> timestamp]
          [] OTHER -> identifier]

\* a commitment and a proof dict as prove_vector_knowledge lays them out, signed
\* under `key`
WellFormed_async(key, vector, identifier, idxs) ==
    LET coords == Normalize(vector)
        commitment == hasher_digest_async(<<>>, coords, DefaultCoherence, identifier)
        body == ProofBody_async(coords, identifier, idxs, 0)
        message == prepare_message_for_signing_async(body, commitment)
    IN  Returned(commitment, WithSignature(body, SignHex(key, message)))

Present_async ==
    /\ variant = "async" /\ held.origin = "none" /\ ncalls < MaxCalls
    /\ \E idxs \in IndexDraws(Len(input_vector), SecurityLevel) :
          LET r == WellFormed_async(public_key, input_vector, input_identifier, idxs)
          IN  held' = [origin |-> "presented", commitment |-> r.commitment,
                       proof |-> r.proof, edited |-> FALSE]
    /\ UNCHANGED <<variant, input_vector, input_identifier, public_key, rcache, ncalls, last, proved, accepted, used_keys>>
    /\ UNCHANGED side_vars

SetField(proof, f, value) == [proof EXCEPT ![f] = value]
WithoutField(proof, f) == [g \in (DOMAIN proof) \ {f} |-> proof[g]]
SetCoeff(proof, i, c) ==
    [proof EXCEPT !["basis_coefficients"] = [@ EXCEPT ![i] = c]]
SetMeasurement(proof, k, m) ==
    [proof EXCEPT !["measurements"] = [@ EXCEPT ![k] = m]]

\* Every dict one edit away from a complete proof dict.
Edits(proof) ==
    LET coeffs == proof["basis_coefficients"]
        meas == proof["measurements"]
        sig == proof["signature"]
    IN  {NoneProof}
        \cup {WithoutField(proof, f) : f \in DOMAIN proof}
        \cup {SetField(proof, "quantum_dimensions", proof["quantum_dimensions"] + 1)}
        \cup {SetField(proof, "identifier", id) : id \in Identifiers}
        \cup {SetField(proof, "signature", s) :
                 s \in {NoneSignature, NonHexSignature, GarbageSignature,
                        SignHex("k2", sig.msg)}}
        \cup {SetCoeff(proof, i, [coeffs[i] EXCEPT !.sq = @ + 1]) : i \in 1..Len(coeffs)}
        \cup {SetCoeff(proof, 1, [coeffs[1] EXCEPT !.sq = @ + Q])}
        \cup {SetCoeff(proof, 1, [coeffs[1] EXCEPT !.form = form]) :
                 form \in {"complex", "float", "dict", "str"}}
        \cup {SetMeasurement(proof, 1, [meas[1] EXCEPT !.probability = Q + 1])}
        \cup {SetMeasurement(proof, 1, [meas[1] EXCEPT !.phase = 2])}

EditProof ==
    /\ held.origin # "none" /\ ~held.edited /\ ncalls < MaxCalls
    /\ RequiredFields \subseteq DOMAIN held.proof
    /\ \E p \in Edits(held.proof) \ {held.proof} :
          held' = [held EXCEPT !.proof = p, !.edited = TRUE]
    /\ UNCHANGED <<variant, input_vector, input_identifier, public_key, rcache, ncalls, last, proved, accepted, used_keys>>
    /\ UNCHANGED side_vars

EditCommitment ==
    /\ held.origin # "none" /\ ~held.edited /\ ncalls < MaxCalls
    /\ held' = [held EXCEPT !.commitment = NoCommitment, !.edited = TRUE]
    /\ UNCHANGED <<variant, input_vector, input_identifier, public_key, rcache, ncalls, last, proved, accepted, used_keys>>
    /\ UNCHANGED side_vars

\* the message the engine's verify_proof will check the signature against
MessageOf(v, proof, commitment) ==
    CASE v = "opt" -> prepare_message_for_signing_opt(proof, commitment)
      [] v = "zkp" -> prepare_message_for_signing_zkp(proof, commitment)
      [] v = "async" -> prepare_message_for_signing_async(proof, commitment)
      [] OTHER -> prepare_message_for_signing_worker(proof, commitment)

Resign ==
    /\ held.origin \in {"proved", "presented"} /\ held.edited /\ ncalls < MaxCalls
    /\ public_key # NoKey
    /\ "signature" \in DOMAIN held.proof
    /\ held' = [held EXCEPT
                  !.origin = "resigned",
                  !.proof = SetField(@, "signature",
                                SignHex(public_key, MessageOf(variant, @, held.commitment)))]
    /\ UNCHANGED <<variant, input_vector, input_identifier, public_key, rcache, ncalls, last, proved, accepted, used_keys>>
    /\ UNCHANGED side_vars

\* ------------------------------------------------------------ verifying
AfterVerify(identifier, out) ==
    /\ ncalls' = ncalls + 1
    /\ last' = [NoCall EXCEPT !.op = "verify", !.identifier = identifier,
                              !.commitment = held.commitment, !.proof = held.proof,
                              !.raised = out.raised, !.exc = out.exc, !.out = out,
                              !.prior_proved = proved, !.prior_accepted = accepted,
                              !.prior_rc = rcache]
    /\ held' = [held EXCEPT !.proof = out.proof]
    /\ rcache' = out.rc
    /\ accepted' = IF ~out.raised /\ out.result
                   THEN [valid |-> TRUE, commitment |-> held.commitment,
                         proof |-> held.proof, identifier |-> identifier]
                   ELSE accepted
    /\ UNCHANGED <<variant, input_vector, input_identifier, public_key, proved, used_keys>>
    /\ UNCHANGED side_vars

Verify_opt ==
    /\ variant = "opt" /\ ncalls < MaxCalls
    /\ \E identifier \in Identifiers :
          AfterVerify(identifier,
                      verify_proof_opt(public_key, Dimensions, rcache, held.commitment,
                                       held.proof, identifier))

Verify_zkp ==
    /\ variant = "zkp" /\ ncalls < MaxCalls
    /\ \E identifier \in Identifiers :
          AfterVerify(identifier,
                      verify_proof_zkp(public_key, Dimensions, rcache, held.commitment,
                                       held.proof, identifier))

Verify_async ==
    /\ variant = "async" /\ ncalls < MaxCalls
    /\ \E identifier \in Identifiers :
          AfterVerify(identifier,
                      verify_proof_async(public_key, ncalls, rcache, held.commitment,
                                         held.proof, identifier))

Next ==
    \/ Prove_opt \/ Prove_zkp \/ Prove_async \/ Prove_worker
    \/ Present_async \/ EditProof \/ EditCommitment \/ Resign
    \/ Verify_opt \/ Verify_zkp \/ Verify_async

Spec == Init /\ [][Next]_vars

\* ---------------------------------------------------------- properties
InRange(m) == m.probability >= 0 /\ m.probability <= Q /\ m.phase >= -1 /\ m.phase <= 1

\* the last call verified exactly what a prove of this engine returned, with
\* the identifier it was proved for, and the vector proved has nonzero norm
VerifiedOwnProof ==
    /\ last.op = "verify" /\ proved.valid
    /\ NormSq(proved.vector) # 0
    /\ last.commitment = proved.commitment
    /\ last.proof = proved.proof
    /\ last.identifier = proved.identifier

\* C1: round trip on the engine of src/modules/zkp/qzkp_optimized.py: for a
\* vector of nonzero norm and an identifier, verify_proof of the commitment and
\* proof that prove_vector_knowledge returned, with that identifier, is true.
C1_RoundTrip ==
    (variant = "opt" /\ VerifiedOwnProof) =>
        (~last.raised /\ last.out.result = TRUE)

C1_Witness ==
    variant = "opt" /\ VerifiedOwnProof /\ ~last.raised /\ last.out.result = TRUE

\* C2: verify_proof never raises and returns a boolean, whatever it is given;
\* when an exception occurred inside it, the result is false.
C2_NeverRaises ==
    last.op = "verify" =>
        /\ ~last.raised
        /\ last.out.result \in BOOLEAN
        /\ (last.exc # "" => last.out.result = FALSE)

C2_Witness ==
    /\ last.op = "verify" /\ variant \in {"zkp", "async"}
    /\ last.exc # "" /\ ~last.raised /\ last.out.result = FALSE

\* C3: verify_proof evaluates checks 1..6 in that order, stops at the first
\* failing one, and returns true only when all six were evaluated and passed:
\* in particular the declared dimensions are the engine's, the declared
\* identifier is the caller's and every measurement is in range.
C3_SixChecksInOrder ==
    last.op = "verify" =>
        LET t == last.out.trace
            p == last.proof
        IN  /\ \A i \in 1..Len(t) : t[i] = i
            /\ last.out.result =>
                  /\ t = <<1, 2, 3, 4, 5, 6>>
                  /\ p["quantum_dimensions"] = Dimensions
                  /\ p["identifier"] = last.identifier
                  /\ \A k \in 1..Len(p["measurements"]) : InRange(p["measurements"][k])

SameValues(cs, ds) ==
    /\ Len(cs) = Len(ds)
    /\ \A i \in 1..Len(cs) : cs[i].nan = ds[i].nan /\ cs[i].sgn = ds[i].sgn /\ cs[i].sq = ds[i].sq

\* the last verify was given an accepted (commitment, proof, id) with the
\* signature changed, or a coefficient changed, or another identifier
TamperedSinceAccepted ==
    LET a == last.prior_accepted
    IN  /\ last.op = "verify" /\ a.valid
        /\ last.commitment = a.commitment
        /\ IsDict(last.proof) /\ DOMAIN last.proof = DOMAIN a.proof
        /\ \/ /\ last.proof = a.proof
              /\ last.identifier # a.identifier
           \/ /\ last.identifier = a.identifier
              /\ last.proof["signature"] # a.proof["signature"]
              /\ WithoutSignature(last.proof) = WithoutSignature(a.proof)
           \/ /\ last.identifier = a.identifier
              /\ ~SameValues(last.proof["basis_coefficients"], a.proof["basis_coefficients"])
              /\ \A f \in (DOMAIN a.proof) \ {"basis_coefficients"} : last.proof[f] = a.proof[f]

\* C4: tamper sensitivity: an accepted (commitment, proof, id) whose signature
\* or a basis coefficient is then changed, or that is then verified under a
\* different identifier, is rejected, whatever was verified before.
C4_TamperSensitive ==
    TamperedSinceAccepted => last.out.result = FALSE

\* C5: a verification answered from the cache is answered as running the
\* checks on the same commitment, proof and identifier would answer it.
C5_CacheSound ==
    (variant = "async" /\ last.op = "verify" /\ last.out.from_cache /\ last.out.result) =>
        verify_proof_async(public_key, ncalls, ResultCache_init(MAX_CACHE_SIZE),
                           last.commitment, last.proof, last.identifier).result

\* C6: determinism: two prove_vector_knowledge calls on one engine with the
\* same vector and identifier return the same commitment.
C6_Deterministic ==
    (/\ last.op = "prove" /\ ~last.raised
     /\ last.prior_proved.valid
     /\ last.prior_proved.vector = last.vector
     /\ last.prior_proved.identifier = last.identifier) =>
        last.commitment = last.prior_proved.commitment

\* C8: verify_proof leaves the proof it was given as it was.
C8_ProofUnchanged ==
    last.op = "verify" => last.out.proof = last.proof

\* C9: the engine has one keypair, and a proof it returned carries a signature
\* made with that key, which verifies under the engine's public key.
C9_OneKeypair ==
    proved.valid =>
        /\ public_key # NoKey
        /\ SigVerify(MessageOf(variant, proved.proof, proved.commitment),
                     proved.proof["signature"], public_key)

\* ------------------------------------------- the thread-local hasher
MaxCommits == 3        \* direct _generate_commitment calls in one run

\* QuantumZKP._get_thread_local_hasher, src/src/modules/zkp/qzkp_optimized.py
get_thread_local_hasher(h) ==
    IF ~h.created THEN [created |-> TRUE, absorbed |-> <<>>] ELSE h

\* QuantumZKP._generate_commitment, src/src/modules/zkp/qzkp_optimized.py: the
\* three updates go into the thread's hasher, digest() reads the hash of all it
\* has absorbed, and hasher.clear() raises AttributeError (a hashlib object has
\* no such method), so the digest is not returned and the hasher keeps its state.
generate_commitment_async(h, coords, coherence, identifier) ==
    LET hasher == get_thread_local_hasher(h)
        absorbed == hasher.absorbed \o tobytes(coords) \o <<CoherenceAtom(coherence)>>
                    \o <<IdAtom(identifier)>>
    IN  [hasher |-> [hasher EXCEPT !.absorbed = absorbed],
         digest |-> hasher_digest_async(hasher.absorbed, coords, coherence, identifier),
         returned |-> FALSE,
         exc |-> "AttributeError"]

GenerateCommitment_async ==
    /\ variant = "async"
    /\ commit_call.nth < MaxCommits
    /\ \E t \in Threads, identifier \in Identifiers :
          LET r == generate_commitment_async(hashers[t], Normalize(input_vector),
                                             DefaultCoherence, identifier)
          IN  /\ hashers' = [hashers EXCEPT ![t] = r.hasher]
              /\ commit_call' = [thread |-> t, vector |-> input_vector,
                                 identifier |-> identifier, before |-> hashers[t],
                                 digest |-> r.digest, returned |-> r.returned,
                                 exc |-> r.exc, nth |-> commit_call.nth + 1]
    /\ UNCHANGED <<engine_vars, pool_shutdown, batch, aux_vars>>

InitHasher == Init /\ variant = "async"
NextHasher == GenerateCommitment_async
SpecHasher == InitHasher /\ [][NextHasher]_vars

\* the digest of the same inputs on a hasher that has absorbed nothing
FreshDigest(vector, identifier) ==
    hasher_digest_async(<<>>, Normalize(vector), DefaultCoherence, identifier)

\* C7: _generate_commitment returns the digest of its inputs alone, the same on
\* a thread's first call as after earlier calls on that thread, and leaves no
\* hashing state behind for the next call.
C7_CommitmentPure ==
    commit_call.thread # "" =>
        /\ commit_call.returned
        /\ commit_call.digest = FreshDigest(commit_call.vector, commit_call.identifier)
        /\ hashers[commit_call.thread].absorbed = <<>>

\* ------------------------------------------------------------- batches
\* A batch call is a start, one step per worker as it finishes its item, and
\* the collection of the results.  Lists are shorter than batch_size, so the
\* async engine's loop over chunks runs once.
MaxBatches == 2        \* batch calls made on one engine in one run

engine_vars_but_cache == <<variant, input_vector, input_identifier, public_key, held,
                           ncalls, last, proved, accepted, used_keys>>

FirstDraw(n) == CHOOSE idxs \in IndexDraws(n, SecurityLevel) : TRUE

\* the (commitment, proof, identifier) triples a verify batch is made of: one the
\* engine accepts on its own when the vector has nonzero norm, and the same
\* with its signature removed
VerifyItems ==
    LET base == IF variant = "opt"
                THEN prove_vector_knowledge_opt(public_key, input_vector, input_identifier,
                         FirstDraw(SquareLength(Len(input_vector), 0)))
                ELSE WellFormed_async(public_key, input_vector, input_identifier,
                                      FirstDraw(Len(input_vector)))
        good == [vector |-> NoVector, identifier |-> input_identifier,
                 commitment |-> base.commitment, proof |-> base.proof]
    IN  {good, [good EXCEPT !.proof = SetField(@, "signature", NoneSignature)]}

\* the (vector, identifier) pairs a prove batch is made of: the input vector
\* and the empty vector, on which the single-item operation raises
ProveItems ==
    {[vector |-> v, identifier |-> id, commitment |-> NoCommitment,
      proof |-> NoneProof] : v \in {input_vector, <<>>}, id \in Identifiers}

\* the draws of np.random.randint(0, n, size); with n = 0 the call raises
\* before anything is drawn
DrawsOrNone(n) == IF n = 0 THEN {<<>>} ELSE IndexDraws(n, SecurityLevel)

Running(op, items) ==
    [op |-> op, phase |-> "running", count |-> batch.count + 1, items |-> items,
     done |-> {}, by_idx |-> [i \in 1..Len(items) |-> NoResult], order |-> <<>>,
     raised |-> FALSE, exc |-> "", results |-> <<>>]

RaisedBatch(op, items, exc) ==
    [Running(op, items) EXCEPT !.phase = "returned", !.raised = TRUE, !.exc = exc]

Finished(i, result) ==
    [batch EXCEPT !.done = @ \cup {i}, !.by_idx[i] = result, !.order = Append(@, i)]

\* verify_proof_batch, src/modules/zkp/qzkp_optimized.py: Parallel(...) starts
StartVerifyBatch_opt ==
    /\ variant = "opt" /\ batch.phase # "running" /\ batch.count < MaxBatches
    /\ \E n \in 1..MaxBatch : \E items \in [1..n -> VerifyItems] :
          batch' = Running("verify", items)
    /\ UNCHANGED <<engine_vars, hashers, commit_call, pool_shutdown, aux_vars>>

\* prove_vector_knowledge_batch, src/modules/zkp/qzkp_optimized.py
StartProveBatch_opt ==
    /\ variant = "opt" /\ batch.phase # "running" /\ batch.count < MaxBatches
    /\ \E n \in 1..MaxBatch : \E items \in [1..n -> ProveItems] :
          batch' = Running("prove", items)
    /\ UNCHANGED <<engine_vars, hashers, commit_call, pool_shutdown, aux_vars>>

\* _verify_proof_worker on one item, in a joblib thread
WorkVerify_opt ==
    /\ variant = "opt" /\ batch.phase = "running" /\ batch.op = "verify"
    /\ \E i \in (1..Len(batch.items)) \ batch.done :
          LET item == batch.items[i]
              out == verify_proof_opt(public_key, Dimensions, rcache, item.commitment,
                                      item.proof, item.identifier)
          IN  /\ batch' = Finished(i, [NoResult EXCEPT !.result = out.result])
              /\ rcache' = out.rc
    /\ UNCHANGED <<engine_vars_but_cache, hashers, commit_call, pool_shutdown,
                   aux_vars>>

\* _prove_vector_knowledge_worker on one item, in a joblib thread
WorkProve_opt ==
    /\ variant = "opt" /\ batch.phase = "running" /\ batch.op = "prove"
    /\ \E i \in (1..Len(batch.items)) \ batch.done :
          LET item == batch.items[i]
          IN  \E idxs \in DrawsOrNone(SquareLength(Len(item.vector), 0)) :
                 LET r == prove_vector_knowledge_opt(public_key, item.vector,
                                                     item.identifier, idxs)
                 IN  batch' = Finished(i, [NoResult EXCEPT !.raised = r.raised,
                                                            !.exc = r.exc,
                                                            !.commitment = r.commitment,
                                                            !.proof = r.proof])
    /\ UNCHANGED <<engine_vars, hashers, commit_call, pool_shutdown, aux_vars>>

\* Parallel(...) returns its results in the order of the arguments
Collect_opt ==
    /\ variant = "opt" /\ batch.phase = "running"
    /\ batch.done = 1..Len(batch.items)
    /\ \A i \in batch.done : ~batch.by_idx[i].raised
    /\ batch' = [batch EXCEPT !.phase = "returned", !.results = batch.by_idx]
    /\ UNCHANGED <<engine_vars, hashers, commit_call, pool_shutdown, aux_vars>>

\* Parallel(...) re-raises the exception of a worker in the caller as soon as
\* it meets it; the results of the other workers are dropped
Reraise_opt ==
    /\ variant = "opt" /\ batch.phase = "running"
    /\ \E i \in batch.done :
          /\ batch.by_idx[i].raised
          /\ batch' = [batch EXCEPT !.phase = "returned", !.raised = TRUE,
                                    !.exc = batch.by_idx[i].exc]
    /\ UNCHANGED <<engine_vars, hashers, commit_call, pool_shutdown, aux_vars>>

\* verify_proof_batch, src/src/modules/zkp/qzkp_optimized.py: entering
\* `with THREAD_POOL` and submitting; a pool that was shut down refuses
StartVerifyBatch_async ==
    /\ variant = "async" /\ batch.phase # "running" /\ batch.count < MaxBatches
    /\ \E n \in 1..MaxBatch : \E items \in [1..n -> VerifyItems] :
          batch' = IF pool_shutdown
                   THEN RaisedBatch("verify", items, "RuntimeError")
                   ELSE Running("verify", items)
    /\ UNCHANGED <<engine_vars, hashers, commit_call, pool_shutdown, aux_vars>>

\* self.verify_proof on one item, in a pool thread
WorkVerify_async ==
    /\ variant = "async" /\ batch.phase = "running" /\ batch.op = "verify"
    /\ \E i \in (1..Len(batch.items)) \ batch.done :
          LET item == batch.items[i]
              out == verify_proof_async(public_key, Len(batch.order), rcache,
                                        item.commitment, item.proof, item.identifier)
          IN  /\ batch' = Finished(i, [NoResult EXCEPT !.result = out.result])
              /\ rcache' = out.rc
    /\ UNCHANGED <<engine_vars_but_cache, hashers, commit_call, pool_shutdown,
                   aux_vars>>

\* [future.result() for future in as_completed(futures)], then the `with`
\* block ends and shuts THREAD_POOL down
Collect_async ==
    /\ variant = "async" /\ batch.phase = "running"
    /\ batch.done = 1..Len(batch.items)
    /\ batch' = [batch EXCEPT
                   !.phase = "returned",
                   !.results = [k \in 1..Len(batch.order) |-> batch.by_idx[batch.order[k]]]]
    /\ pool_shutdown' = TRUE
    /\ UNCHANGED <<engine_vars, hashers, commit_call, aux_vars>>

\* prove_vector_knowledge_batch, src/src/modules/zkp/qzkp_optimized.py:
\* asyncio.gather over coroutines each of which raises before its first await
ProveBatch_async ==
    /\ variant = "async" /\ batch.phase # "running" /\ batch.count < MaxBatches
    /\ \E n \in 1..MaxBatch : \E items \in [1..n -> ProveItems] :
          LET r == prove_vector_knowledge_async(public_key, items[1].vector,
                                                items[1].identifier, <<>>)
          IN  batch' = RaisedBatch("prove", items, r.exc)
    /\ UNCHANGED <<engine_vars, hashers, commit_call, pool_shutdown, aux_vars>>

InitBatch == Init /\ variant \in {"opt", "async"}
NextBatch ==
    \/ StartVerifyBatch_opt \/ StartProveBatch_opt \/ WorkVerify_opt \/ WorkProve_opt
    \/ Collect_opt \/ Reraise_opt
    \/ StartVerifyBatch_async \/ WorkVerify_async \/ Collect_async \/ ProveBatch_async
SpecBatch == InitBatch /\ [][NextBatch]_vars

\* C10: the i-th element of the list a batch call returns is the result of the
\* single-item operation on the i-th input, whatever order the workers finish in.
C10_InputOrder ==
    (batch.phase = "returned" /\ ~batch.raised) =>
        /\ Len(batch.results) = Len(batch.items)
        /\ \A i \in 1..Len(batch.items) : batch.results[i] = batch.by_idx[i]

\* C11: in a batch operation one item's failure does not abort the others:
\* when the processing of one item raises, every other item is still processed
\* and its result is returned to the caller.
C11_FailureIsolated ==
    (/\ batch.phase = "returned" /\ batch.op = "prove"
     /\ \E i \in 1..Len(batch.items) : batch.by_idx[i].raised) =>
        \A j \in 1..Len(batch.items) :
            Len(batch.items[j].vector) > 0 =>
                /\ j \in batch.done
                /\ Len(batch.results) = Len(batch.items)
                /\ batch.results[j] = batch.by_idx[j]

\* ------------------------------------------------- the ResultCache on its own
\* get and put hold self.lock for their whole body, so the calls of concurrent
\* threads act on the cache one after the other, in any order.  The engine
\* builds its cache with MAX_CACHE_SIZE; here the capacity is small enough to
\* be reached.
MaxSize == 2           \* largest maxsize a cache is built with
MaxOps == 6            \* get and put calls made on one cache in one run
CacheKeys == {"ka", "kb", "kc"}

Size(rc) == Cardinality(DOMAIN rc.cache)

\* ResultCache.get under the lock, called by any thread
Cache_get ==
    /\ cache_log.nops < MaxOps
    /\ \E t \in Threads, key \in CacheKeys :
          LET r == ResultCache_get(rcache, key, cache_log.nops + 1)
          IN  /\ rcache' = r.rc
              /\ cache_log' = [cache_log EXCEPT !.op = "get", !.key = key,
                                  !.nops = @ + 1, !.prior_inserted = cache_log.inserted,
                                  !.prior_stored = cache_log.stored,
                                  !.was_full = FALSE, !.evicted = {}]
    /\ UNCHANGED <<engine_vars_but_cache, hashers, commit_call, pool_shutdown, batch, vss,
                   sample, more_vars>>

\* ResultCache.put under the lock, called by any thread; verify_proof only
\* ever stores True
Cache_put ==
    /\ cache_log.nops < MaxOps
    /\ \E t \in Threads, key \in CacheKeys :
          LET now == cache_log.nops + 1
              after == ResultCache_put(rcache, key, TRUE, now)
              full == Size(rcache) >= rcache.maxsize
              \* the cache between the eviction and the store
              room == IF full THEN ResultCache_evict_oldest(rcache) ELSE rcache
              gone == (DOMAIN rcache.cache) \ (DOMAIN room.cache)
              still == [k \in (DOMAIN room.cache) \ {key} |-> cache_log.inserted[k]]
              \* the call makes key present unless it was present already
              when == IF key \in DOMAIN rcache.cache THEN cache_log.inserted[key]
                      ELSE now
              kept == [k \in (DOMAIN room.cache) \ {key} |-> cache_log.stored[k]]
          IN  /\ rcache' = after
              /\ cache_log' = [op |-> "put", key |-> key, nops |-> now,
                               inserted |-> (key :> when) @@ still,
                               stored |-> (key :> now) @@ kept,
                               prior_inserted |-> cache_log.inserted,
                               prior_stored |-> cache_log.stored,
                               was_full |-> full,
                               evicted |-> gone]
    /\ UNCHANGED <<engine_vars_but_cache, hashers, commit_call, pool_shutdown, batch, vss,
                   sample, more_vars>>

InitCache ==
    /\ variant = "async"
    /\ input_vector = NoVector
    /\ input_identifier = ""
    /\ public_key = EngineKey
    /\ \E maxsize \in 1..MaxSize : rcache = ResultCache_init(maxsize)
    /\ held = NoHeld
    /\ ncalls = 0
    /\ last = NoCall
    /\ proved = NoProved
    /\ accepted = NoAccepted
    /\ used_keys = {}
    /\ hashers = [t \in Threads |-> NoHasher]
    /\ commit_call = NoCommitCall
    /\ pool_shutdown = FALSE
    /\ batch = NoBatch
    /\ cache_log = NoCacheLog
    /\ vss = NoVss
    /\ sample = NoSample
    /\ interp = NoInterp
    /\ emitter = NoEmitter
    /\ protocol = NoProtocol
NextCache == Cache_get \/ Cache_put
SpecCache == InitCache /\ [][NextCache]_vars

\* C12: after any sequence or interleaving of get and put calls by concurrent
\* threads, each holding the lock for its critical section, the ResultCache
\* holds at most maxsize entries.
C12_CacheBounded == Size(rcache) <= rcache.maxsize

\* a put has just stored a new key into a cache that was full
C12_Witness ==
    /\ cache_log.op = "put" /\ cache_log.was_full
    /\ cache_log.key \notin DOMAIN cache_log.prior_inserted
    /\ Size(rcache) = rcache.maxsize

\* the keys of a map from keys to times whose time is no later than any other
Earliest(inserted) ==
    {k \in DOMAIN inserted : \A o \in DOMAIN inserted : inserted[k] <= inserted[o]}

\* C13: eviction is oldest-first: whenever put inserts into a full ResultCache,
\* the entry evicted is the one inserted earliest among the entries in the
\* cache, whatever get and put calls came before, keys that were evicted and
\* inserted again included.  An entry's insertion is the put that made its
\* key present or the last put that stored it: the evicted entry has to be the
\* earliest by one of the two.
C13_OldestFirst ==
    (/\ cache_log.op = "put" /\ cache_log.was_full
     /\ cache_log.key \notin DOMAIN cache_log.prior_inserted) =>
        /\ cache_log.evicted # {}
        /\ cache_log.evicted \subseteq
               Earliest(cache_log.prior_inserted) \cup Earliest(cache_log.prior_stored)

\* ------------------------------------------- _generate_measurements on its own
\* The function is called directly on the coordinates of a state, as the test
\* of the module does, with the security level of the engine it belongs to.
SecurityLevels == {8, 16}

Min(a, b) == IF a <= b THEN a ELSE b

\* QuantumStateVector._normalize, src/src/modules/zkp/revised_gemini.py: a
\* vector of norm zero becomes np.zeros_like(vector)
normalize_gemini(v) ==
    IF NormSq(v) > 0 THEN Normalize(v) ELSE [i \in 1..Len(v) |-> ZeroAmp]

\* np.random.choice(n, num_measurements, replace=False)
ChoicesWithoutReplacement(n, num_measurements) ==
    {idxs \in [1..num_measurements -> 0..(n - 1)] :
        \A i, j \in 1..num_measurements : i # j => idxs[i] # idxs[j]}

\* QuantumZKP._generate_measurements, src/src/modules/zkp/revised_gemini.py
generate_measurements_gemini(coords, security_level, idxs) ==
    [k \in 1..Min(security_level \div 8, Len(coords)) |-> Measure(coords, idxs[k])]

GenerateMeasurements_opt ==
    /\ variant = "opt"
    /\ \E security_level \in SecurityLevels :
          LET coords == adjust_to_square_length(Normalize(input_vector))
          IN  \E idxs \in IndexDraws(Len(coords), security_level) :
                 sample' = [engine |-> "opt", coords |-> coords,
                            security_level |-> security_level,
                            measurements |->
                                generate_measurements(coords, security_level, idxs)]
    /\ UNCHANGED <<engine_vars, zkp_side_vars, cache_log, vss, more_vars>>

GenerateMeasurements_gemini ==
    /\ variant = "gemini"
    /\ \E security_level \in SecurityLevels :
          LET coords == normalize_gemini(input_vector)
          IN  \E idxs \in ChoicesWithoutReplacement(Len(coords),
                              Min(security_level \div 8, Len(coords))) :
                 sample' = [engine |-> "gemini", coords |-> coords,
                            security_level |-> security_level,
                            measurements |->
                                generate_measurements_gemini(coords, security_level, idxs)]
    /\ UNCHANGED <<engine_vars, zkp_side_vars, cache_log, vss, more_vars>>

InitMeasure ==
    /\ variant \in {"opt", "gemini"}
    /\ input_vector \in Vectors
    /\ input_identifier \in Identifiers
    /\ public_key = EngineKey
    /\ rcache = ResultCache_init(MAX_CACHE_SIZE)
    /\ held = NoHeld
    /\ ncalls = 0
    /\ last = NoCall
    /\ proved = NoProved
    /\ accepted = NoAccepted
    /\ used_keys = {}
    /\ hashers = [t \in Threads |-> NoHasher]
    /\ commit_call = NoCommitCall
    /\ pool_shutdown = FALSE
    /\ batch = NoBatch
    /\ cache_log = NoCacheLog
    /\ vss = NoVss
    /\ sample = NoSample
    /\ interp = NoInterp
    /\ emitter = NoEmitter
    /\ protocol = NoProtocol
NextMeasure == GenerateMeasurements_opt \/ GenerateMeasurements_gemini
SpecMeasure == InitMeasure /\ [][NextMeasure]_vars

\* C14: the measurements generated for a proof are exactly security_level/8,
\* whatever the dimension of the state (the indices are drawn with
\* replacement), and the index of each lies in [0, dimension).
C14_MeasurementCount ==
    sample.engine # "none" =>
        /\ Len(sample.measurements) = sample.security_level \div 8
        /\ \A k \in 1..Len(sample.measurements) :
              sample.measurements[k].basis_index \in 0..(Len(sample.coords) - 1)

\* C15: proving with a malformed construction input (an empty vector, a vector
\* of norm zero, a security level that is not a positive multiple of 8) raises
\* an error to the caller and produces no (commitment, proof).  Checked on the
\* vectors of norm zero.
C15_MalformedInputRaises ==
    (last.op = "prove" /\ NormSq(last.vector) = 0) =>
        last.raised /\ proved = last.prior_proved

\* C16: prove_vector_knowledge adapts the input vector to the engine dimension
\* D, zero-padding a shorter vector and truncating a longer one, so that every
\* proof it returns carries exactly D basis coefficients.
C16_DimensionAdapted ==
    (last.op = "prove" /\ ~last.raised) =>
        Len(last.proof["basis_coefficients"]) = last.proof["quantum_dimensions"]

\* ------------------------------------------------ verifiable secret sharing
\* src/src/modules/vector_module/vss_utils.py.  Coordinates are counted in the
\* units that reconstruct_secret rounds to, the field is a small prime field,
\* and the bytes that Kyber and secrets.randbelow produce at random are drawn
\* from small sets.
PRIME_MODULUS == 7     \* a small prime in the place of 2 ** 127 - 1
SCALE_FACTOR == 2      \* fixed-point steps per rounding unit
VSS_threshold == 3     \* self.threshold, set by VSS.__init__
MaxCoords == 3         \* longest secret vector
NumShares == 3         \* N, the shares made of each coordinate
SecretVals == {1, 2}
Coefficients == {1, PRIME_MODULUS - 1}
KemSeeds == {0, 1}
FalconKey == "f1"

\* Poly.from_list(coefficients, x, domain=GF(p)).eval(x) % p: the list is read
\* from the highest degree down
RECURSIVE PolyEval(_, _, _)
PolyEval(coefficients, x, acc) ==
    IF coefficients = <<>> THEN acc % PRIME_MODULUS
    ELSE PolyEval(Tail(coefficients), x, (acc * x + Head(coefficients)) % PRIME_MODULUS)

\* the shared secret of the k-th encapsulation of a run
KyberSecret(seed, k) == (seed + 3 * k) % PRIME_MODULUS
\* kyber.encap_secret(public_key): the ciphertext hides the shared secret
\* under the keypair it was made for
Encap(seed, keypair) == [pk |-> keypair, ss |-> KyberSecret(seed, keypair)]
\* kyber.decap_secret(ciphertext) with the secret key the object holds: the
\* shared secret under the matching key, bytes unrelated to it under another
decap_secret(kyber_sk, ciphertext) ==
    IF ciphertext.pk = kyber_sk THEN ciphertext.ss
    ELSE (ciphertext.ss + kyber_sk + 1) % PRIME_MODULUS

\* bytes that no encapsulation produced
GarbageCiphertext == [pk |-> 0, ss |-> 0]
\* falcon.sign(ciphertext)
FalconSign(key, ciphertext) == [key |-> key, msg |-> ciphertext]
\* bytes that no key ever produced
GarbageFalconSignature == [key |-> NoKey, msg |-> GarbageCiphertext]
\* falcon.verify(ciphertext, signature, public_key)
FalconVerify(ciphertext, signature, issuer_key) ==
    issuer_key # NoKey /\ signature.key = issuer_key /\ signature.msg = ciphertext

\* the shares split_secret makes of coordinate number c (from 1): for each
\* i a new Kyber keypair on the one Kyber object, an encapsulation under it,
\* and a signature over the ciphertext; share_value is computed and dropped
CoordShares(c, seed) ==
    [i \in 1..NumShares |->
        LET ciphertext == Encap(seed, (c - 1) * NumShares + i)
        IN  [i |-> i, ciphertext |-> ciphertext, encrypted_share |-> ciphertext.ss,
             signature |-> FalconSign(FalconKey, ciphertext)]]

\* share_value of line 43 for each i
ShareValues(coord, randoms) ==
    [i \in 1..NumShares |-> PolyEval(<<coord * SCALE_FACTOR>> \o randoms, i, 0)]

split_secret(coordinates, randoms, seed) ==
    [all_shares |-> [c \in 1..Len(coordinates) |-> CoordShares(c, seed)],
     share_values |-> [c \in 1..Len(coordinates) |-> ShareValues(coordinates[c], randoms)],
     kyber_sk |-> Len(coordinates) * NumShares]

\* what happened to one share during a reconstruction
Event(what, c, k, ok) == [what |-> what, coord |-> c, pos |-> k, ok |-> ok]

\* a decoding that decapsulates before it looks at the signature
decode_share_decap_first(kyber_sk, share, issuer_key, c, k) ==
    [raised |-> ~FalconVerify(share.ciphertext, share.signature, issuer_key),
     log |-> <<Event("decap", c, k, TRUE),
               Event("verify", c, k,
                     FalconVerify(share.ciphertext, share.signature, issuer_key))>>,
     point |-> [x |-> share.i, y |-> decap_secret(kyber_sk, share.ciphertext)]]

\* lines 60-64 for the k-th share supplied for coordinate c
decode_share(kyber_sk, share, issuer_key, c, k) ==
    IF ~FalconVerify(share.ciphertext, share.signature, issuer_key)
    THEN [raised |-> TRUE, log |-> <<Event("verify", c, k, FALSE)>>,
          point |-> [x |-> share.i, y |-> 0]]
    ELSE [raised |-> FALSE,
          log |-> <<Event("verify", c, k, TRUE), Event("decap", c, k, TRUE)>>,
          point |-> [x |-> share.i, y |-> decap_secret(kyber_sk, share.ciphertext)]]

\* the loop of lines 59-64: stops at the first share that raises
RECURSIVE decode_shares(_, _, _, _, _, _)
decode_shares(kyber_sk, coord_shares, issuer_key, c, k, acc) ==
    IF k > Len(coord_shares) THEN acc
    ELSE LET d == decode_share(kyber_sk, coord_shares[k], issuer_key, c, k)
             next == [raised |-> d.raised, log |-> acc.log \o d.log,
                      points |-> IF d.raised THEN acc.points
                                 ELSE Append(acc.points, d.point)]
         IN  IF d.raised THEN next
             ELSE decode_shares(kyber_sk, coord_shares, issuer_key, c, k + 1, next)

\* pow(denom, -1, p): 0 when denom has no inverse, which raises ValueError
Inverse(denom, p) ==
    IF \E z \in 1..(p - 1) : (denom * z) % p = 1
    THEN CHOOSE z \in 1..(p - 1) : (denom * z) % p = 1
    ELSE 0

RECURSIVE LagrangeTerm_without_inverse(_, _, _, _, _)
\* the inner loop without the division by x_j - x_m
LagrangeTerm_without_inverse(points, j, m, term, p) ==
    IF m > Len(points) THEN term
    ELSE IF m = j THEN LagrangeTerm_without_inverse(points, j, m + 1, term, p)
    ELSE LagrangeTerm_without_inverse(points, j, m + 1,
                                      (term * (0 - points[m].x)) % p, p)

RECURSIVE LagrangeTerm(_, _, _, _, _)
\* the inner loop of lagrange_interpolate at x = 0, from m on
LagrangeTerm(points, j, m, term, p) ==
    IF m > Len(points) THEN term
    ELSE IF m = j THEN LagrangeTerm(points, j, m + 1, term, p)
    ELSE LET denom == (points[j].x - points[m].x) % p
         IN  LagrangeTerm(points, j, m + 1,
                          (term * (0 - points[m].x) * Inverse(denom, p)) % p, p)

\* an interpolation without the check of line 94
InterpolationRaises_never(points, p) == FALSE

\* whether lagrange_interpolate raises ValueError: a repeated x, or a
\* difference that has no inverse
InterpolationRaises(points, p) ==
    \E j, m \in 1..Len(points) :
        j # m /\ Inverse((points[j].x - points[m].x) % p, p) = 0

RECURSIVE lagrange_interpolate(_, _, _, _)
lagrange_interpolate(points, j, result, p) ==
    IF j > Len(points) THEN result
    ELSE lagrange_interpolate(points, j + 1,
             (result + LagrangeTerm(points, j, 1, points[j].y, p)) % p, p)

\* round(float(coord_int / SCALE_FACTOR), 4) in rounding units, ties to even
Round(coord_int, scale) ==
    LET q == coord_int \div scale
        r == coord_int % scale
    IN  IF 2 * r < scale THEN q
        ELSE IF 2 * r > scale THEN q + 1
        ELSE IF q % 2 = 0 THEN q ELSE q + 1

NotEnoughShares == "Not enough shares provided for reconstruction."
VerificationFailed == "Signature verification failed for share."
NonInvertible == "Non-invertible base in modular interpolation"
\* x_vals, y_vals = zip(*shares) on an empty list
NothingToUnpack == "not enough values to unpack (expected 2, got 0)"

\* what reconstruct_secret did: whether it raised and what, the array it
\* returned, what it did to each share, and the (x, y) points it decoded
Reconstruction(raised, msg, coords, log, points) ==
    [raised |-> raised, exc |-> IF raised THEN "ValueError" ELSE "", msg |-> msg,
     coords |-> coords, log |-> log, points |-> points]

\* the loop of lines 57-69 from coordinate number c on
RECURSIVE reconstruct_coords(_, _, _, _, _)
reconstruct_coords(kyber_sk, all_encrypted_shares, issuer_key, c, acc) ==
    IF c > Len(all_encrypted_shares) THEN acc
    ELSE LET d == decode_shares(kyber_sk, all_encrypted_shares[c], issuer_key, c, 1,
                                [raised |-> FALSE, log |-> <<>>, points |-> <<>>])
             log == acc.log \o d.log
             points == Append(acc.points, d.points)
         IN  IF d.raised
             THEN Reconstruction(TRUE, VerificationFailed, <<>>, log, points)
             ELSE IF d.points = <<>>
             THEN Reconstruction(TRUE, NothingToUnpack, <<>>, log, points)
             ELSE IF InterpolationRaises(d.points, PRIME_MODULUS)
             THEN Reconstruction(TRUE, NonInvertible, <<>>, log, points)
             ELSE reconstruct_coords(kyber_sk, all_encrypted_shares, issuer_key, c + 1,
                      Reconstruction(FALSE, "",
                          Append(acc.coords,
                                 Round(lagrange_interpolate(d.points, 1, 0, PRIME_MODULUS),
                                       SCALE_FACTOR)),
                          Append(log, Event("interpolate", c, 0, TRUE)), points))

reconstruct_secret(threshold, kyber_sk, all_encrypted_shares, issuer_key) ==
    IF Len(all_encrypted_shares) < threshold
    THEN Reconstruction(TRUE, NotEnoughShares, <<>>, <<>>, <<>>)
    ELSE reconstruct_coords(kyber_sk, all_encrypted_shares, issuer_key, 1,
                            Reconstruction(FALSE, "", <<>>, <<>>, <<>>))

\* QuantumVectorManager.secure_reconstruct_vector for a vector it holds: a
\* ValueError becomes False and the Coordinates layer is left as it was
secure_reconstruct_vector(out, layer) ==
    IF out.raised THEN [returned |-> FALSE, layer |-> layer]
    ELSE [returned |-> TRUE, layer |-> out.coords]

SecretVectors == UNION {[1..n -> SecretVals] : n \in 1..MaxCoords}
NoTamper == [kind |-> "none", c |-> 0, i |-> 0]
TamperKinds == {"ciphertext", "signature", "ciphertext_of_next", "signature_of_next",
                "both_of_next"}

\* VSS.__init__, and a manager that holds the vector to be split
\* no share is supplied twice
NoRepeat == [c |-> 0, i |-> 0]

NewVss ==
    [phase |-> "new", threshold |-> VSS_threshold, falcon_public_key |-> FalconKey,
     kyber_sk |-> 0, secret |-> <<>>, T |-> 0, share_values |-> <<>>, held |-> <<>>,
     tamper |-> NoTamper, subset |-> {}, repeat |-> NoRepeat, supplied |-> <<>>,
     out |-> Reconstruction(FALSE, "", <<>>, <<>>, <<>>),
     manager |-> [returned |-> FALSE, layer |-> <<>>], prior_layer |-> <<>>]

\* the thresholds a caller passes to split_secret: below 2, from 2 to the
\* number of shares, and above the number of shares
Thresholds == 1..(NumShares + 1)

\* split_secret(coordinates, T, NumShares); the holders receive the shares
Split ==
    /\ vss.phase = "new"
    /\ \E coordinates \in SecretVectors, T \in Thresholds, seed \in KemSeeds :
          \E randoms \in [1..(T - 1) -> Coefficients] :
             LET r == split_secret(coordinates, randoms, seed)
             IN  vss' = [vss EXCEPT !.phase = "split", !.secret = coordinates, !.T = T,
                                    !.kyber_sk = r.kyber_sk,
                                    !.share_values = r.share_values,
                                    !.held = r.all_shares,
                                    !.manager = [returned |-> FALSE, layer |-> coordinates]]
    /\ UNCHANGED <<engine_vars, zkp_side_vars, cache_log, sample, more_vars>>

\* the share after i of the same coordinate, the first after the last
NextShare(c, i) == vss.held[c][(i % NumShares) + 1]

\* a share altered after the split
Altered(share, kind, other) ==
    CASE kind = "ciphertext" -> [share EXCEPT !.ciphertext = GarbageCiphertext]
      [] kind = "signature" -> [share EXCEPT !.signature = GarbageFalconSignature]
      [] kind = "ciphertext_of_next" -> [share EXCEPT !.ciphertext = other.ciphertext]
      [] kind = "signature_of_next" -> [share EXCEPT !.signature = other.signature]
      [] kind = "both_of_next" -> [share EXCEPT !.ciphertext = other.ciphertext,
                                                !.signature = other.signature]

\* someone alters the ciphertext, the signature or both of one held share,
\* to arbitrary bytes or to those of another share
Tamper ==
    /\ vss.phase = "split" /\ vss.tamper = NoTamper
    /\ \E c \in 1..Len(vss.held), i \in 1..NumShares, kind \in TamperKinds :
          vss' = [vss EXCEPT !.held[c][i] = Altered(@, kind, NextShare(c, i)),
                             !.tamper = [kind |-> kind, c |-> c, i |-> i]]
    /\ UNCHANGED <<engine_vars, zkp_side_vars, cache_log, sample, more_vars>>

\* secure_reconstruct_vector: reconstruct_secret on the shares numbered in
\* subset of every coordinate, with the issuer's public key; the caller may
\* list one share of one coordinate a second time
Reconstruct ==
    /\ vss.phase = "split"
    /\ \E subset \in (SUBSET (1..NumShares)) \ {{}} :
       \E repeat \in {NoRepeat} \cup [c : 1..Len(vss.held), i : subset] :
          LET supplied == [c \in 1..Len(vss.held) |->
                              SelectSeq(vss.held[c], LAMBDA share : share.i \in subset)
                              \o (IF repeat.c = c THEN <<vss.held[c][repeat.i]>>
                                  ELSE <<>>)]
              out == reconstruct_secret(vss.threshold, vss.kyber_sk, supplied,
                                        vss.falcon_public_key)
          IN  vss' = [vss EXCEPT !.phase = "reconstructed", !.subset = subset,
                                 !.repeat = repeat, !.supplied = supplied, !.out = out,
                                 !.manager = secure_reconstruct_vector(out, @.layer),
                                 !.prior_layer = vss.manager.layer]
    /\ UNCHANGED <<engine_vars, zkp_side_vars, cache_log, sample, more_vars>>

InitVss ==
    /\ variant = "opt"
    /\ input_vector = NoVector
    /\ input_identifier = ""
    /\ public_key = EngineKey
    /\ rcache = ResultCache_init(MAX_CACHE_SIZE)
    /\ held = NoHeld
    /\ ncalls = 0
    /\ last = NoCall
    /\ proved = NoProved
    /\ accepted = NoAccepted
    /\ used_keys = {}
    /\ hashers = [t \in Threads |-> NoHasher]
    /\ commit_call = NoCommitCall
    /\ pool_shutdown = FALSE
    /\ batch = NoBatch
    /\ cache_log = NoCacheLog
    /\ sample = NoSample
    /\ interp = NoInterp
    /\ emitter = NoEmitter
    /\ protocol = NoProtocol
    /\ vss = NewVss
NextVss == Split \/ Tamper \/ Reconstruct
SpecVss == InitVss /\ [][NextVss]_vars

\* a reconstruction from shares nobody altered, each listed once, of a split
\* with a threshold from 2 to the number of shares
Untampered ==
    /\ vss.phase = "reconstructed" /\ vss.tamper = NoTamper /\ vss.repeat = NoRepeat
    /\ vss.T \in 2..NumShares

\* C17: the threshold property: for every secret vector s and 2 <= T <= N,
\* reconstruct_secret on any T of the N shares of each coordinate returns s
\* within the rounding tolerance; the integer decoded from each share is the
\* polynomial value split_secret computed for that share's index.
C17_Threshold ==
    (Untampered /\ Cardinality(vss.subset) = vss.T) =>
        /\ ~vss.out.raised
        /\ vss.out.coords = vss.secret
        /\ \A c \in 1..Len(vss.supplied) : \A k \in 1..Len(vss.supplied[c]) :
              vss.out.points[c][k].y = vss.share_values[c][vss.supplied[c][k].i]

\* C18: reconstruct_secret requires at least T shares per coordinate, T being
\* the threshold used at split: it raises the error for insufficient shares
\* when some coordinate has fewer than T shares and does not raise it when
\* every coordinate has at least T, whatever the number of coordinates.
C18_InsufficientShares ==
    Untampered =>
        ((vss.out.raised /\ vss.out.msg = NotEnoughShares)
            <=> \E c \in 1..Len(vss.supplied) : Len(vss.supplied[c]) < vss.T)

\* a reconstruction to which an altered share was supplied
TamperedSupplied ==
    /\ vss.phase = "reconstructed" /\ vss.tamper # NoTamper
    /\ vss.tamper.i \in vss.subset

\* C19: share tamper-sensitivity, fail-closed: if the ciphertext or the
\* signature of any supplied share was altered after the split,
\* reconstruct_secret raises and returns no vector, not even the coordinates
\* it had already reconstructed, and the manager installs nothing.
C19_TamperFailsClosed ==
    TamperedSupplied =>
        /\ vss.out.raised /\ vss.out.coords = <<>>
        /\ ~vss.manager.returned /\ vss.manager.layer = vss.prior_layer

\* the events of the log before position n that concern the same share
VerifiedBefore(log, n, c, k) ==
    \E v \in 1..(n - 1) :
        log[v].what = "verify" /\ log[v].coord = c /\ log[v].pos = k /\ log[v].ok

\* C20: for each share, reconstruct_secret verifies the issuer's signature over
\* the share's ciphertext before it decapsulates that share; no share whose
\* signature check failed is ever decapsulated or used in interpolation.
C20_VerifyBeforeDecap ==
    LET log == vss.out.log
    IN  \A n \in 1..Len(log) :
           /\ log[n].what = "decap" =>
                  VerifiedBefore(log, n, log[n].coord, log[n].pos)
           /\ log[n].what = "interpolate" =>
                  \A k \in 1..Len(vss.supplied[log[n].coord]) :
                      VerifiedBefore(log, n, log[n].coord, k)
           /\ (log[n].what = "verify" /\ ~log[n].ok) =>
                  /\ n = Len(log)
                  /\ \A d \in 1..Len(log) :
                        ~(/\ log[d].what = "decap" /\ log[d].coord = log[n].coord
                          /\ log[d].pos = log[n].pos)

\* a reconstruction that decapsulated some shares and then met one whose
\* signature check failed
C20_Witness ==
    /\ TamperedSupplied
    /\ vss.out.raised /\ vss.out.msg = VerificationFailed
    /\ \E n \in 1..Len(vss.out.log) : vss.out.log[n].what = "decap"

\* what reconstruct_secret returns on all the shares held of every coordinate
FromAllShares ==
    reconstruct_secret(vss.threshold, vss.kyber_sk, vss.held, vss.falcon_public_key)

\* C21: subset independence: for the shares of one split_secret call,
\* reconstruct_secret returns the same vector for every subset that has at
\* least T shares per coordinate, subsets with more than T shares included.
C21_SubsetIndependent ==
    (Untampered /\ Cardinality(vss.subset) >= vss.T) =>
        /\ vss.out.raised = FromAllShares.raised
        /\ vss.out.coords = FromAllShares.coords

C23_SplitValidates ==
    vss.phase # "new" =>
        IF vss.T \in 2..NumShares
        THEN /\ Len(vss.held) = Len(vss.secret)
             /\ \A c \in 1..Len(vss.held) :
                   /\ Len(vss.held[c]) = NumShares
                   /\ \A i \in 1..NumShares : vss.held[c][i].i = i
        ELSE vss.held = <<>>

\* ------------------------------------------- interpolation of share points
\* _reconstruct_from_shares called on points of a known polynomial: the
\* polynomial split_secret builds for a coordinate, or any polynomial over a
\* prime field
SignedCoords == {-2, -1, 1, 2}
FieldPrimes == {5, PRIME_MODULUS}
MaxT == 3

\* f(x) mod p for the coefficient list of f, highest degree first
RECURSIVE EvalMod(_, _, _, _)
EvalMod(coefficients, x, acc, p) ==
    IF coefficients = <<>> THEN acc % p
    ELSE EvalMod(Tail(coefficients), x, (acc * x + Head(coefficients)) % p, p)

\* the ways to list T share indices, each once
Orderings(T) ==
    {s \in [1..T -> 1..NumShares] : \A a, b \in 1..T : a # b => s[a] # s[b]}

NewInterp ==
    [phase |-> "new", p |-> 0, from_split |-> FALSE, coord |-> 0, T |-> 0,
     coefficients |-> <<>>, points |-> <<>>, raised |-> FALSE, result |-> 0,
     coord_out |-> 0]

\* lines 32-38 of split_secret for one coordinate
BuildPolynomial ==
    /\ interp.phase = "new"
    /\ \E coord \in SignedCoords, T \in 2..MaxT :
          \E randoms \in [1..(T - 1) -> 0..(PRIME_MODULUS - 1)] :
             LET coord_int == coord * SCALE_FACTOR
             IN  interp' = [interp EXCEPT !.phase = "built", !.p = PRIME_MODULUS,
                                          !.from_split = TRUE, !.coord = coord, !.T = T,
                                          !.coefficients = <<coord_int>> \o randoms]
    /\ UNCHANGED <<engine_vars, zkp_side_vars, cache_log, vss, sample, emitter, protocol>>

\* any polynomial of degree at most T - 1 over a prime field
AnyPolynomial ==
    /\ interp.phase = "new"
    /\ \E p \in FieldPrimes, T \in 2..MaxT :
          \E coefficients \in [1..T -> 0..(p - 1)] :
             interp' = [interp EXCEPT !.phase = "built", !.p = p, !.T = T,
                                      !.coefficients = coefficients]
    /\ UNCHANGED <<engine_vars, zkp_side_vars, cache_log, vss, sample, emitter, protocol>>

\* line 43 for T of the share indices, listed in some order
TakePoints ==
    /\ interp.phase = "built"
    /\ \E s \in Orderings(interp.T) :
          interp' = [interp EXCEPT !.phase = "sampled",
                        !.points = [k \in 1..interp.T |->
                                       [x |-> s[k],
                                        y |-> EvalMod(interp.coefficients, s[k], 0,
                                                      interp.p)]]]
    /\ UNCHANGED <<engine_vars, zkp_side_vars, cache_log, vss, sample, emitter, protocol>>

\* lines 67-68: _reconstruct_from_shares on the points, then the scaling back
Interpolate ==
    /\ interp.phase = "sampled"
    /\ LET raised == InterpolationRaises(interp.points, interp.p)
           result == IF raised THEN 0
                     ELSE lagrange_interpolate(interp.points, 1, 0, interp.p)
       IN  interp' = [interp EXCEPT !.phase = "done", !.raised = raised,
                                    !.result = result,
                                    !.coord_out = Round(result, SCALE_FACTOR)]
    /\ UNCHANGED <<engine_vars, zkp_side_vars, cache_log, vss, sample, emitter, protocol>>

InitInterp ==
    /\ variant = "opt"
    /\ input_vector = NoVector
    /\ input_identifier = ""
    /\ public_key = EngineKey
    /\ rcache = ResultCache_init(MAX_CACHE_SIZE)
    /\ held = NoHeld
    /\ ncalls = 0
    /\ last = NoCall
    /\ proved = NoProved
    /\ accepted = NoAccepted
    /\ used_keys = {}
    /\ hashers = [t \in Threads |-> NoHasher]
    /\ commit_call = NoCommitCall
    /\ pool_shutdown = FALSE
    /\ batch = NoBatch
    /\ cache_log = NoCacheLog
    /\ sample = NoSample
    /\ vss = NoVss
    /\ interp = NewInterp
    /\ emitter = NoEmitter
    /\ protocol = NoProtocol
NextInterp == BuildPolynomial \/ AnyPolynomial \/ TakePoints \/ Interpolate
SpecInterp == InitInterp /\ [][NextInterp]_vars

\* C24: sign preservation: for every secret coordinate c, negative c included,
\* interpolating T valid share points of the polynomial built for c and
\* scaling back returns c; the field element recovered modulo the prime is
\* mapped back to the signed fixed-point integer before the division by the
\* scale factor.
C24_SignPreserved ==
    (interp.phase = "done" /\ interp.from_split) =>
        ~interp.raised /\ interp.coord_out = interp.coord

\* whether p is a prime
IsPrime(p) == p > 1 /\ \A d \in 2..(p - 1) : p % d # 0

\* the points have pairwise distinct nonzero x in the field
DistinctNonzero(points, p) ==
    /\ \A k \in 1..Len(points) : points[k].x % p # 0
    /\ \A k, n \in 1..Len(points) : k # n => points[k].x % p # points[n].x % p

\* C25: _reconstruct_from_shares applied to any T points (x_i, f(x_i) mod p)
\* with pairwise distinct nonzero x_i, of a polynomial f of degree at most
\* T - 1 over the prime field, returns f(0) mod p, the constant term,
\* independent of the order in which the points are listed.
C25_InterpolatesConstantTerm ==
    (/\ interp.phase = "done" /\ IsPrime(interp.p)
     /\ DistinctNonzero(interp.points, interp.p)) =>
        /\ ~interp.raised
        /\ interp.result = interp.coefficients[interp.T] % interp.p
        /\ interp.result = EvalMod(interp.coefficients, 0, 0, interp.p)

\* three points of a polynomial of degree two, listed out of order, with a
\* constant term that is not zero
C25_Witness ==
    /\ interp.phase = "done" /\ IsPrime(interp.p) /\ interp.T = 3
    /\ interp.coefficients[1] # 0 /\ interp.coefficients[3] # 0
    /\ interp.points[1].x > interp.points[2].x
    /\ interp.result = interp.coefficients[3] % interp.p

\* C26: verify_proof_batch returns exactly one boolean per input item on every
\* call: on a second call on the same process the shared worker pool is still
\* usable and the call completes without an error.
C26_PoolStaysUsable ==
    (variant = "async" /\ batch.op = "verify" /\ batch.phase = "returned") =>
        /\ ~batch.raised
        /\ Len(batch.results) = Len(batch.items)
        /\ \A k \in 1..Len(batch.results) : batch.results[k].result \in BOOLEAN

\* C27: the ResultCache's bookkeeping is bounded like its entries: after any
\* sequence of get and put calls, access_queue holds at most maxsize keys and
\* access_times has exactly the keys of cache.
C27_BookkeepingBounded ==
    /\ Len(rcache.access_queue) <= rcache.maxsize
    /\ DOMAIN rcache.access_times = DOMAIN rcache.cache

\* C28: verify_proof writes to the result cache only after all of its checks
\* passed: a verification that returns false never stores anything, every
\* value stored is true, and therefore a cache hit never returns false.
C28_CacheOnlySuccess ==
    /\ \A k \in DOMAIN rcache.cache : rcache.cache[k] = TRUE
    /\ (variant = "async" /\ last.op = "verify") =>
          /\ ~last.out.result => last.out.rc.cache = last.prior_rc.cache
          /\ last.out.rc.cache # last.prior_rc.cache =>
                 last.out.result /\ last.out.trace = <<1, 4, 5>>
          /\ last.out.from_cache => last.out.result

\* a verification that passed the signature check, failed the check of the
\* coefficients and returned false, on an engine whose cache holds an entry
C28_Witness ==
    /\ variant = "async" /\ last.op = "verify"
    /\ ~last.out.result /\ last.out.trace = <<1, 4, 5>> /\ last.out.exc = ""
    /\ DOMAIN last.prior_rc.cache # {}
    /\ rcache.cache = last.prior_rc.cache

\* ------------------------------------------------------- the EventEmitter
\* src/modules/events_module/event_emitter.py.  A hash is the term it was
\* computed from, so two hashes are equal exactly when their inputs are; the
\* empty string is the empty term and None a term no hash equals.
MaxEmits == 4
EventData == {"d1", "d2"}
EmptyString == <<>>
NoneHash == <<"None">>

\* ipfs_client.add_json(data): the content identifier of the data
add_json(data) == <<"cid", data>>

\* compute_hash(event): sha256 of the event's JSON with sorted keys
compute_hash(event) == <<"sha256", event.data, event.ipfs_hash, event.previous_hash>>

NewEmitter ==
    [phase |-> "connected", latest_hash |-> NoneHash, published |-> <<>>, ncalls |-> 0,
     raised |-> FALSE, failed_publish |-> 0]

\* emit_event(event_type, data); add_json or publish may raise
emit_event ==
    /\ emitter.phase = "connected" /\ emitter.ncalls < MaxEmits
    /\ \E data \in EventData, ipfs_up \in BOOLEAN, nats_up \in BOOLEAN :
          IF ~ipfs_up
          THEN emitter' = [emitter EXCEPT !.ncalls = @ + 1, !.raised = TRUE]
          ELSE LET ipfs_hash == add_json(data)
                   previous_hash == IF emitter.latest_hash # NoneHash
                                       /\ emitter.latest_hash # EmptyString
                                    THEN emitter.latest_hash ELSE EmptyString
                   event == [data |-> data, previous_hash |-> previous_hash,
                             ipfs_hash |-> ipfs_hash]
                   compounded_hash == compute_hash(event)
                   message == [data |-> data, previous_hash |-> previous_hash,
                               ipfs_hash |-> ipfs_hash,
                               compounded_hash |-> compounded_hash]
               IN  emitter' = [emitter EXCEPT
                                  !.ncalls = @ + 1,
                                  !.latest_hash = compounded_hash,
                                  !.raised = ~nats_up,
                                  !.failed_publish = IF nats_up THEN @ ELSE @ + 1,
                                  !.published = IF nats_up THEN Append(@, message)
                                                ELSE @]
    /\ UNCHANGED <<engine_vars, zkp_side_vars, cache_log, vss, sample, interp, protocol>>

InitEmit ==
    /\ variant = "opt"
    /\ input_vector = NoVector
    /\ input_identifier = ""
    /\ public_key = EngineKey
    /\ rcache = ResultCache_init(MAX_CACHE_SIZE)
    /\ held = NoHeld
    /\ ncalls = 0
    /\ last = NoCall
    /\ proved = NoProved
    /\ accepted = NoAccepted
    /\ used_keys = {}
    /\ hashers = [t \in Threads |-> NoHasher]
    /\ commit_call = NoCommitCall
    /\ pool_shutdown = FALSE
    /\ batch = NoBatch
    /\ cache_log = NoCacheLog
    /\ sample = NoSample
    /\ vss = NoVss
    /\ interp = NoInterp
    /\ emitter = NewEmitter
    /\ protocol = NoProtocol
NextEmit == emit_event
SpecEmit == InitEmit /\ [][NextEmit]_vars

\* C29: the events published by one EventEmitter form a hash chain: each
\* published event's previous_hash equals the compounded_hash of the event
\* published immediately before it, the empty string for the first, also
\* when an earlier emit_event call failed while publishing.
C29_HashChain ==
    \A k \in 1..Len(emitter.published) :
        emitter.published[k].previous_hash =
            IF k = 1 THEN EmptyString
            ELSE emitter.published[k - 1].compounded_hash

\* -------------------------------------------------- the TransactionProtocol
\* src/src/modules/vector_module/transaction_protocol.py behind the endpoints
\* of main.py, which the server runs in worker threads.  Each access to a
\* list or a set is one step; a call to the vector manager is one step.
MaxTx == 2
MaxProcess == 3
Procs == {"w1", "w2"}
Senders == {"s1"}
VectorIds == {"None", "v1"}
NoTx == [n |-> 0, tx_id |-> <<"", 0>>, vector_id |-> "None"]
IdleProc == [pc |-> "idle", idx |-> 0, cur |-> NoTx, raised |-> FALSE]

NewProtocol ==
    [phase |-> "ready", pending_transactions |-> <<>>, processed_transactions |-> {},
     locked_vectors |-> {}, created |-> 0, clock |-> 0, calls |-> 0,
     handled |-> [n \in 1..MaxTx |-> 0], proc |-> [p \in Procs |-> IdleProc]]

\* create_transaction(tx_type, sender, vector_data, **kwargs); time.time() may
\* read the same value twice
create_transaction ==
    /\ protocol.phase = "ready" /\ protocol.created < MaxTx
    /\ \E sender \in Senders, vector_id \in VectorIds, tick \in {0, 1} :
          LET now == protocol.clock + tick
              tx_id == <<sender, now>>
              transaction == [n |-> protocol.created + 1, tx_id |-> tx_id,
                              vector_id |-> vector_id]
          IN  /\ now <= MaxTx
              /\ protocol' =
                    IF tx_id \in protocol.processed_transactions
                    THEN [protocol EXCEPT !.clock = now]
                    ELSE [protocol EXCEPT !.clock = now, !.created = @ + 1,
                                          !.pending_transactions = Append(@, transaction)]
    /\ UNCHANGED <<engine_vars, zkp_side_vars, cache_log, vss, sample, interp, emitter>>

\* a worker thread enters process_transactions: iter(self.pending_transactions)
process_transactions(p) ==
    /\ protocol.phase = "ready" /\ protocol.proc[p].pc = "idle"
    /\ protocol.calls < MaxProcess
    /\ protocol' = [protocol EXCEPT !.proc[p] = [IdleProc EXCEPT !.pc = "for"],
                                    !.calls = @ + 1]
    /\ UNCHANGED <<engine_vars, zkp_side_vars, cache_log, vss, sample, interp, emitter>>

\* line 51: the list iterator yields the element at its index, or stops when
\* the index is past the end of the list as it is now
ForNext(p) ==
    /\ protocol.proc[p].pc = "for"
    /\ LET idx == protocol.proc[p].idx
       IN  protocol' =
              IF idx < Len(protocol.pending_transactions)
              THEN [protocol EXCEPT !.proc[p].pc = "check", !.proc[p].idx = idx + 1,
                                    !.proc[p].cur = protocol.pending_transactions[idx + 1]]
              ELSE [protocol EXCEPT !.proc[p].pc = "clear"]
    /\ UNCHANGED <<engine_vars, zkp_side_vars, cache_log, vss, sample, interp, emitter>>

\* lines 57-59: a locked vector makes the loop continue with the next
CheckLocked(p) ==
    /\ protocol.proc[p].pc = "check"
    /\ protocol' =
          IF protocol.proc[p].cur.vector_id \in protocol.locked_vectors
          THEN [protocol EXCEPT !.proc[p].pc = "for"]
          ELSE [protocol EXCEPT !.proc[p].pc = "lock"]
    /\ UNCHANGED <<engine_vars, zkp_side_vars, cache_log, vss, sample, interp, emitter>>

\* line 62
Lock(p) ==
    /\ protocol.proc[p].pc = "lock"
    /\ protocol' = [protocol EXCEPT !.proc[p].pc = "try",
                                    !.locked_vectors = @ \cup {protocol.proc[p].cur.vector_id}]
    /\ UNCHANGED <<engine_vars, zkp_side_vars, cache_log, vss, sample, interp, emitter>>

\* lines 64-79: the call on the vector manager for the transaction's type,
\* which may raise; processed_transactions.add when it did not
Handle(p) ==
    /\ protocol.proc[p].pc = "try"
    /\ \E raises \in BOOLEAN :
          protocol' = [protocol EXCEPT
                          !.proc[p].pc = "finally",
                          !.handled[protocol.proc[p].cur.n] = @ + 1,
                          !.processed_transactions =
                              IF raises THEN @ ELSE @ \cup {protocol.proc[p].cur.tx_id}]
    /\ UNCHANGED <<engine_vars, zkp_side_vars, cache_log, vss, sample, interp, emitter>>

\* line 82: set.remove raises KeyError when the element is not in the set,
\* and the exception leaves process_transactions
Unlock(p) ==
    /\ protocol.proc[p].pc = "finally"
    /\ protocol' =
          IF protocol.proc[p].cur.vector_id \in protocol.locked_vectors
          THEN [protocol EXCEPT !.proc[p].pc = "for",
                                !.locked_vectors = @ \ {protocol.proc[p].cur.vector_id}]
          ELSE [protocol EXCEPT !.proc[p] = [IdleProc EXCEPT !.raised = TRUE]]
    /\ UNCHANGED <<engine_vars, zkp_side_vars, cache_log, vss, sample, interp, emitter>>

\* line 85, and the call returns
Clear(p) ==
    /\ protocol.proc[p].pc = "clear"
    /\ protocol' = [protocol EXCEPT !.proc[p] = IdleProc, !.pending_transactions = <<>>]
    /\ UNCHANGED <<engine_vars, zkp_side_vars, cache_log, vss, sample, interp, emitter>>

InitProtocol ==
    /\ variant = "opt"
    /\ input_vector = NoVector
    /\ input_identifier = ""
    /\ public_key = EngineKey
    /\ rcache = ResultCache_init(MAX_CACHE_SIZE)
    /\ held = NoHeld
    /\ ncalls = 0
    /\ last = NoCall
    /\ proved = NoProved
    /\ accepted = NoAccepted
    /\ used_keys = {}
    /\ hashers = [t \in Threads |-> NoHasher]
    /\ commit_call = NoCommitCall
    /\ pool_shutdown = FALSE
    /\ batch = NoBatch
    /\ cache_log = NoCacheLog
    /\ sample = NoSample
    /\ vss = NoVss
    /\ interp = NoInterp
    /\ emitter = NoEmitter
    /\ protocol = NewProtocol
NextProtocol ==
    \/ create_transaction
    \/ \E p \in Procs :
          \/ process_transactions(p) \/ ForNext(p) \/ CheckLocked(p) \/ Lock(p)
          \/ Handle(p) \/ Unlock(p) \/ Clear(p)
SpecProtocol == InitProtocol /\ [][NextProtocol]_vars

\* the serial numbers of the transactions in pending_transactions
Pending == {protocol.pending_transactions[k].n : k \in 1..Len(protocol.pending_transactions)}

\* C30: no created transaction is lost or handled twice: for any interleaving
\* of create_transaction and process_transactions calls, each transaction is
\* removed from pending_transactions only after it was handled exactly once,
\* and locked_vectors is empty whenever no process_transactions call is
\* executing, also when handling a transaction raised.
C30_NoLossNoDouble ==
    /\ \A n \in 1..protocol.created :
          /\ protocol.handled[n] <= 1
          /\ n \notin Pending => protocol.handled[n] = 1
    /\ (\A p \in Procs : protocol.proc[p].pc = "idle") => protocol.locked_vectors = {}

=============================================================================
